---- MODULE Spec2Model ----
(***************************************************************************)
(* Miller / Miller-Bravais lattice plane calculator and visualizer.        *)
(*                                                                         *)
(* InterceptCalculator (src/config.js, the last class of the file) maps    *)
(* an index set and a crystal system to intersection points, normal,       *)
(* center and size, and memoizes the result in a Map keyed by a string.    *)
(* MillerVisualizer (src/unnamed/part_000) builds the plane shape from it. *)
(*                                                                         *)
(* Numbers.  Every coordinate the program computes from integer indices    *)
(* is q or q*sqrt(3) for a rational q (SQRT3 enters only through the a2    *)
(* and a3 directions), so a scalar is the exact value                      *)
(*        [n |-> numerator, d |-> denominator > 0, r |-> 0 or 1]           *)
(* standing for (n/d) * sqrt(3)^r, kept in lowest terms.                   *)
(***************************************************************************)
EXTENDS Integers, Sequences, FiniteSets, TLC

\* ------------------------------------------------------------------ bounds
\* Largest magnitude of the ordinary integer indices tried in SpecOnce.
MaxIdx == 2
\* Cap on the number of fresh calculations in a behaviour of Spec
\* (computeCount is an unbounded counter in the program).
MaxComputes == 2
\* visualize is not called again once this many undisposed geometry and
\* material objects exist.
MaxResources == 10
\* handleGenerate is not explored once this many calculations have run.
MaxGenerates == 1
\* animate requests no further frame once this many have been requested.
MaxFrames == 5

\* ------------------------------------------------- configuration constants
MIN_VALUE == -99
MAX_VALUE == 99
AXIS_LENGTH == 2
\* PLANE.DEFAULT_SIZE and PLANE.MAX_SIZE
DEFAULT_SIZE == 3
MAX_SIZE == 10

\* ------------------------------------------------------- exact arithmetic
Abs(n) == IF n < 0 THEN -n ELSE n

RECURSIVE GCD(_, _)
GCD(a, b) == IF b = 0 THEN a ELSE GCD(b, a % b)

LCM(a, b) == (a \div GCD(a, b)) * b

\* (n/d) * sqrt(3)^r in lowest terms, d > 0; zero is always [0,1,0].
Sc(n, d, r) ==
    IF n = 0 THEN [n |-> 0, d |-> 1, r |-> 0]
    ELSE LET s == IF d < 0 THEN -1 ELSE 1
             g == GCD(Abs(n), Abs(d))
         IN  [n |-> (s * n) \div g, d |-> Abs(d) \div g, r |-> r]

Zero == Sc(0, 1, 0)
One == Sc(1, 1, 0)

\* a * (qn/qd)
SMulQ(a, qn, qd) == Sc(a.n * qn, a.d * qd, a.r)

\* a * (qn/qd) * sqrt(3)
SMulQR3(a, qn, qd) ==
    IF a.r = 0 THEN Sc(a.n * qn, a.d * qd, 1)
    ELSE Sc(3 * a.n * qn, a.d * qd, 0)

SNeg(a) == Sc(-a.n, a.d, a.r)

\* a + b for two scalars of the same kind (both rational or both multiples
\* of sqrt(3)); a zero is of either kind.
SAdd(a, b) ==
    IF a.n = 0 THEN b
    ELSE IF b.n = 0 THEN a
    ELSE LET L == LCM(a.d, b.d)
         IN  Sc(a.n * (L \div a.d) + b.n * (L \div b.d), L, a.r)

SSub(a, b) == SAdd(a, SNeg(b))

\* a * b
SMul(a, b) ==
    IF a.r = 1 /\ b.r = 1 THEN Sc(3 * a.n * b.n, a.d * b.d, 0)
    ELSE Sc(a.n * b.n, a.d * b.d, IF a.r + b.r = 1 THEN 1 ELSE 0)

Sign(a) == IF a.n > 0 THEN 1 ELSE IF a.n < 0 THEN -1 ELSE 0

\* a < b for non-negative a, b, by comparing squares when the kinds differ.
LessNonNeg(a, b) ==
    IF a.r = b.r \/ a.n = 0 \/ b.n = 0 THEN a.n * b.d < b.n * a.d
    ELSE LET g == GCD(a.n * b.d, b.n * a.d)
             p == (a.n * b.d) \div g
             q == (b.n * a.d) \div g
         IN  IF a.r = 1 THEN 3 * p * p < q * q ELSE p * p < 3 * q * q

SLess(a, b) ==
    IF Sign(a) < 0 /\ Sign(b) >= 0 THEN TRUE
    ELSE IF Sign(a) >= 0 /\ Sign(b) < 0 THEN FALSE
    ELSE IF Sign(a) >= 0 THEN LessNonNeg(a, b)
    ELSE LessNonNeg(SNeg(b), SNeg(a))

SMax(a, b) == IF SLess(a, b) THEN b ELSE a
SMin(a, b) == IF SLess(b, a) THEN b ELSE a

\* |a| < 1e-10, the zero-snap threshold of the calculator, for a rational a:
\* |n|/d < 1/10^10 exactly when |n| <= floor((d-1)/10^10).
AbsBelowEps(a) == Abs(a.n) <= ((a.d - 1) \div 100000) \div 100000

\* ---------------------------------------------------------------- vectors
Vec(x, y, z) == [x |-> x, y |-> y, z |-> z]
Null == [null |-> TRUE]
IsVector3(p) == p # Null
Origin == Vec(Zero, Zero, Zero)

VAdd(p, q) == Vec(SAdd(p.x, q.x), SAdd(p.y, q.y), SAdd(p.z, q.z))
VDivScalar(p, k) == Vec(SMulQ(p.x, 1, k), SMulQ(p.y, 1, k), SMulQ(p.z, 1, k))
VScale(p, s) == Vec(SMul(p.x, s), SMul(p.y, s), SMul(p.z, s))

\* x*x + y*y + z*z, a rational.
LengthSq(p) == SAdd(SAdd(SMul(p.x, p.x), SMul(p.y, p.y)), SMul(p.z, p.z))

RECURSIVE SumVec(_)
SumVec(ps) == IF ps = <<>> THEN Origin ELSE VAdd(Head(ps), SumVec(Tail(ps)))


\* ----------------------------------------------------------- index values
\* A JavaScript number handed in as an index: an integer v, the non-integer
\* v/2 (v odd), NaN, +Infinity or -Infinity.
IntNum(n) == [t |-> "int", v |-> n]
HalfNum(n) == [t |-> "frac", v |-> n]
NaN == [t |-> "nan", v |-> 0]
PosInf == [t |-> "inf", v |-> 0]
NegInf == [t |-> "ninf", v |-> 0]

NumberIsInteger(x) == x.t = "int"
NumberIsFinite(x) == x.t \in {"int", "frac"}
IsZeroNumber(x) == x.t = "int" /\ x.v = 0
\* The exact value of a finite number.
NumberValue(x) == IF x.t = "int" THEN Sc(x.v, 1, 0) ELSE Sc(x.v, 2, 0)

\* -------------------------------------------------- number -> string, keys
Digits == <<"0", "1", "2", "3", "4", "5", "6", "7", "8", "9">>

RECURSIVE NatToString(_)
NatToString(n) ==
    IF n < 10 THEN <<Digits[n + 1]>>
    ELSE NatToString(n \div 10) \o <<Digits[(n % 10) + 1]>>

\* String(x) of a number x, as the sequence of its characters.
NumberToString(x) ==
    CASE x.t = "int" ->
           (IF x.v < 0 THEN <<"-">> ELSE <<>>) \o NatToString(Abs(x.v))
      [] x.t = "frac" ->
           (IF x.v < 0 THEN <<"-">> ELSE <<>>) \o NatToString(Abs(x.v) \div 2)
               \o <<".", "5">>
      [] x.t = "nan" -> <<"N", "a", "N">>
      [] x.t = "inf" -> <<"Infinity">>
      [] x.t = "ninf" -> <<"-", "Infinity">>

\* JSON.stringify of a number: non-finite numbers are written as null.
JSONNumber(x) == IF NumberIsFinite(x) THEN NumberToString(x) ELSE <<"null">>

JSONStringify(params) ==
    <<"{\"h\":">> \o JSONNumber(params.h) \o <<",\"k\":">> \o JSONNumber(params.k)
        \o <<",\"l\":">> \o JSONNumber(params.l)
        \o <<",\"system\":\"", params.system, "\"}">>

\* Fault variant for C17: the key leaves out the last index.
_getCacheKeyNoL(params) ==
    <<params.system, "-">> \o NumberToString(params.h) \o <<",">>
        \o NumberToString(params.k)

\* Fault variant for C5: the key leaves out the system (and with it i).
_getCacheKeyNoSystem(params) ==
    <<"cubic-">> \o NumberToString(params.h) \o <<",">>
        \o NumberToString(params.k) \o <<",">> \o NumberToString(params.l)

_getCacheKey(params) ==
    IF params.system = "cubic"
    THEN <<"cubic-">> \o NumberToString(params.h) \o <<",">>
             \o NumberToString(params.k) \o <<",">> \o NumberToString(params.l)
    ELSE IF params.system = "hexagonal"
    THEN <<"hex-">> \o NumberToString(params.h) \o <<",">>
             \o NumberToString(params.k) \o <<",">> \o NumberToString(params.i)
             \o <<",">> \o NumberToString(params.l)
    ELSE <<"unknown-">> \o JSONStringify(params)

\* ------------------------------------------------------------- validation
ErrAllZero == "All indices cannot be zero"
ErrCubicInteger == "Cubic indices must be integers"
ErrCubicFinite == "Invalid cubic index value (NaN or Infinity)"
ErrHexInteger == "Hexagonal indices must be integers"
ErrHexFinite == "Invalid hexagonal index value (NaN or Infinity)"
ErrHexConstraint == "Hexagonal indices must satisfy h + k + i = 0."
ErrUnsupportedValidation == "Unsupported crystal system for validation"
ErrUnsupported == "Unsupported crystal system"
NoError == "none"

\* Fault variant for C4: the integer test is missing, only non-finite
\* numbers are refused.
CubicValidationErrorFiniteOnly(indices) ==
    IF \A n \in 1..3 : IsZeroNumber(indices[n]) THEN ErrAllZero
    ELSE IF \E n \in 1..3 : ~NumberIsFinite(indices[n]) THEN ErrCubicFinite
    ELSE NoError

\* Fault variant for C1: the h + k + i = 0 test is missing.
HexValidationErrorNoSum(hkil) ==
    IF \A n \in 1..4 : IsZeroNumber(hkil[n]) THEN ErrAllZero
    ELSE IF \E n \in 1..4 : ~NumberIsInteger(hkil[n]) THEN ErrHexInteger
    ELSE IF \E n \in 1..4 : ~NumberIsFinite(hkil[n]) THEN ErrHexFinite
    ELSE NoError

\* Fault variant for C2: the all-zero test is missing.
HexValidationErrorNoZero(hkil) ==
    IF \E n \in 1..4 : ~NumberIsInteger(hkil[n]) THEN ErrHexInteger
    ELSE IF \E n \in 1..4 : ~NumberIsFinite(hkil[n]) THEN ErrHexFinite
    ELSE IF hkil[1].v + hkil[2].v + hkil[3].v # 0 THEN ErrHexConstraint
    ELSE NoError

\* The error validateIndices throws on an index list, or NoError.  The sum
\* h + k + i is only evaluated on integers (the integer test comes first).
CubicValidationError(indices) ==
    IF \A n \in 1..3 : IsZeroNumber(indices[n]) THEN ErrAllZero
    ELSE IF \E n \in 1..3 : ~NumberIsInteger(indices[n]) THEN ErrCubicInteger
    ELSE IF \E n \in 1..3 : ~NumberIsFinite(indices[n]) THEN ErrCubicFinite
    ELSE NoError

HexValidationError(hkil) ==
    IF \A n \in 1..4 : IsZeroNumber(hkil[n]) THEN ErrAllZero
    ELSE IF \E n \in 1..4 : ~NumberIsInteger(hkil[n]) THEN ErrHexInteger
    ELSE IF \E n \in 1..4 : ~NumberIsFinite(hkil[n]) THEN ErrHexFinite
    ELSE IF hkil[1].v + hkil[2].v + hkil[3].v # 0 THEN ErrHexConstraint
    ELSE NoError

validateIndices(params) ==
    IF params.system = "cubic"
    THEN CubicValidationError(<<params.h, params.k, params.l>>)
    ELSE IF params.system = "hexagonal"
    THEN HexValidationError(<<params.h, params.k, params.i, params.l>>)
    ELSE ErrUnsupportedValidation

\* ------------------------------------------------------------ calculation
Infinity == [inf |-> TRUE]

\* Fault variant for C15: the intercept is the index, not its reciprocal.
_calculateSingleInterceptNoReciprocal(index) ==
    IF ~NumberIsFinite(index) \/ AbsBelowEps(NumberValue(index)) THEN Infinity
    ELSE NumberValue(index)

\* 1 / index, or Infinity for 0, NaN and the infinities.
_calculateSingleIntercept(index) ==
    IF ~NumberIsFinite(index) \/ AbsBelowEps(NumberValue(index)) THEN Infinity
    ELSE LET q == NumberValue(index) IN Sc(q.d, q.n, 0)

\* The list of the values of an object that are Vector3 instances.
ValidPoints(values) == SelectSeq(values, IsVector3)

\* The integer vector of the same direction with coprime coefficients:
\* the canonical form in which a normalized vector is kept.
Primitive(v) ==
    LET L == LCM(LCM(v.x.d, v.y.d), v.z.d)
        cx == v.x.n * (L \div v.x.d)
        cy == v.y.n * (L \div v.y.d)
        cz == v.z.n * (L \div v.z.d)
        g == GCD(GCD(Abs(cx), Abs(cy)), Abs(cz))
    IN  IF g = 0 THEN Origin
        ELSE Vec(Sc(cx \div g, 1, v.x.r), Sc(cy \div g, 1, v.y.r),
                 Sc(cz \div g, 1, v.z.r))

\* Vector3.normalize(): v / |v| (the zero vector stays zero).  The unit
\* vector is represented by the primitive vector of its direction.
Normalize(v) == Primitive(v)

\* lengthSq() < 1e-10.  lengthSq is at least the square of each coordinate,
\* so it is only summed when every coordinate is below 1e-5 in magnitude.
LengthSqBelowEps(v) ==
    LET big(c) == c.n # 0 /\ Abs(c.n) * 100000 >= c.d
    IN  IF big(v.x) \/ big(v.y) \/ big(v.z) THEN FALSE
        ELSE AbsBelowEps(LengthSq(v))

\* new THREE.Vector3(k_for_b, l_for_c, h_for_a), before it is normalized.
CubicNormalVector(h_for_a, k_for_b, l_for_c) ==
    Vec(NumberValue(k_for_b), NumberValue(l_for_c), NumberValue(h_for_a))

_calculateCubicPlaneNormal(h_for_a, k_for_b, l_for_c) ==
    LET Normal(normal) ==
            IF LengthSq(normal) = Zero THEN Vec(Zero, Zero, One)
            ELSE Normalize(normal)
    IN  Normal(CubicNormalVector(h_for_a, k_for_b, l_for_c))

\* Fault variant for C11: the hexagonal normal vector without its l part.
HexagonalNormalVectorNoL(h, k, l) ==
    Vec(SSub(NumberValue(h), SMulQ(NumberValue(k), 1, 2)),
        SMulQR3(NumberValue(k), 1, 2), Zero)

\* new THREE.Vector3(h - k/2, k * SQRT3 / 2, l), before it is normalized.
HexagonalNormalVector(h, k, l) ==
    Vec(SSub(NumberValue(h), SMulQ(NumberValue(k), 1, 2)),
        SMulQR3(NumberValue(k), 1, 2), NumberValue(l))

_calculateHexagonalPlaneNormal(h, k, l) ==
    LET Normal(normal) ==
            IF LengthSqBelowEps(normal)
            THEN IF IsZeroNumber(h) /\ IsZeroNumber(k) /\ ~IsZeroNumber(l)
                 THEN Vec(Zero, Zero, Sc(Sign(NumberValue(l)), 1, 0))
                 ELSE Vec(Zero, Zero, One)
            ELSE Normalize(normal)
    IN  Normal(HexagonalNormalVector(h, k, l))

\* Fault variant for C18: the sum is divided by the number of axes.
_calculatePlaneCenterAllAxes(intersectionPointsList) ==
    LET validPoints == ValidPoints(intersectionPointsList)
        center == VDivScalar(SumVec(validPoints), Len(intersectionPointsList))
    IN  IF Len(validPoints) = 0 THEN Origin
        ELSE IF LengthSqBelowEps(center) THEN Origin
        ELSE center

_calculatePlaneCenter(intersectionPointsList) ==
    LET validPoints == ValidPoints(intersectionPointsList)
        center == VDivScalar(SumVec(validPoints), Len(validPoints))
    IN  IF Len(validPoints) = 0 THEN Origin
        ELSE IF LengthSqBelowEps(center) THEN Origin
        ELSE center

RECURSIVE MaxCoord(_, _)
MaxCoord(ps, c) ==
    IF ps = <<>> THEN Zero ELSE SMax(Head(ps)[c], MaxCoord(Tail(ps), c))

RECURSIVE MinCoord(_, _)
MinCoord(ps, c) ==
    IF ps = <<>> THEN Zero ELSE SMin(Head(ps)[c], MinCoord(Tail(ps), c))

\* Box3 of the origin and the points: getSize() is max - min per coordinate.
BoxSize(ps) ==
    Vec(SSub(MaxCoord(ps, "x"), MinCoord(ps, "x")),
        SSub(MaxCoord(ps, "y"), MinCoord(ps, "y")),
        SSub(MaxCoord(ps, "z"), MinCoord(ps, "z")))

\* Fault variant for C19: the largest dimension has no lower limit of 0.5.
_calculatePlaneSizeNoFloor(intersectionPointsList) ==
    LET validPoints == ValidPoints(intersectionPointsList)
        sizeVec == BoxSize(validPoints)
        maxDimension == SMax(SMax(sizeVec.x, sizeVec.y), sizeVec.z)
    IN  IF Len(validPoints) <= 1 THEN SMulQ(Sc(DEFAULT_SIZE, 1, 0), 3, 2)
        ELSE SMin(SMulQ(maxDimension, 3, 2), Sc(MAX_SIZE, 1, 0))

\* Fault variant for C20: a single point is put through the bounding box
\* formula as well.
_calculatePlaneSizeNoFallback(intersectionPointsList) ==
    LET validPoints == ValidPoints(intersectionPointsList)
        sizeVec == BoxSize(validPoints)
        maxDimension == SMax(SMax(sizeVec.x, sizeVec.y), sizeVec.z)
        calculatedSize == SMulQ(SMax(maxDimension, Sc(1, 2, 0)), 3, 2)
    IN  IF Len(validPoints) = 0 THEN SMulQ(Sc(DEFAULT_SIZE, 1, 0), 3, 2)
        ELSE SMin(calculatedSize, Sc(MAX_SIZE, 1, 0))

_calculatePlaneSize(intersectionPointsList) ==
    LET validPoints == ValidPoints(intersectionPointsList)
        sizeVec == BoxSize(validPoints)
        maxDimension == SMax(SMax(sizeVec.x, sizeVec.y), sizeVec.z)
        calculatedSize == SMulQ(SMax(maxDimension, Sc(1, 2, 0)), 3, 2)
    IN  IF Len(validPoints) <= 1 THEN SMulQ(Sc(DEFAULT_SIZE, 1, 0), 3, 2)
        ELSE SMin(calculatedSize, Sc(MAX_SIZE, 1, 0))

\* Fault variant for C9: the earlier pairing, x from h, y from k, z from l.
_calculateCubicInterceptsXYZ(params) ==
    LET interceptX == _calculateSingleIntercept(params.h)
        interceptY == _calculateSingleIntercept(params.k)
        interceptZ == _calculateSingleIntercept(params.l)
        intersections ==
            [x |-> IF interceptX = Infinity THEN Null ELSE Vec(interceptX, Zero, Zero),
             y |-> IF interceptY = Infinity THEN Null ELSE Vec(Zero, interceptY, Zero),
             z |-> IF interceptZ = Infinity THEN Null ELSE Vec(Zero, Zero, interceptZ)]
        values == <<intersections.x, intersections.y, intersections.z>>
    IN  [intersections |-> intersections,
         normal |-> _calculateCubicPlaneNormal(params.h, params.k, params.l),
         center |-> _calculatePlaneCenter(values),
         size |-> _calculatePlaneSize(values),
         parameters |-> [h |-> params.h, k |-> params.k, l |-> params.l,
                         system |-> params.system],
         intercepts |-> [a |-> interceptZ, b |-> interceptX, c |-> interceptY]]

_calculateCubicIntercepts(params) ==
    LET interceptA == _calculateSingleIntercept(params.h)
        interceptB == _calculateSingleIntercept(params.k)
        interceptC == _calculateSingleIntercept(params.l)
        intersections ==
            [x |-> IF interceptB = Infinity THEN Null ELSE Vec(interceptB, Zero, Zero),
             y |-> IF interceptC = Infinity THEN Null ELSE Vec(Zero, interceptC, Zero),
             z |-> IF interceptA = Infinity THEN Null ELSE Vec(Zero, Zero, interceptA)]
        values == <<intersections.x, intersections.y, intersections.z>>
    IN  [intersections |-> intersections,
         normal |-> _calculateCubicPlaneNormal(params.h, params.k, params.l),
         center |-> _calculatePlaneCenter(values),
         size |-> _calculatePlaneSize(values),
         parameters |-> [h |-> params.h, k |-> params.k, l |-> params.l,
                         system |-> params.system],
         intercepts |-> [a |-> interceptA, b |-> interceptB, c |-> interceptC]]

_calculateHexagonalIntercepts(params) ==
    LET interceptA1 == _calculateSingleIntercept(params.h)
        interceptA2 == _calculateSingleIntercept(params.k)
        interceptA3 == _calculateSingleIntercept(params.i)
        interceptC == _calculateSingleIntercept(params.l)
        intersections ==
            [a1 |-> IF interceptA1 = Infinity THEN Null
                    ELSE Vec(interceptA1, Zero, Zero),
             a2 |-> IF interceptA2 = Infinity THEN Null
                    ELSE Vec(SMulQ(interceptA2, -1, 2), SMulQR3(interceptA2, 1, 2), Zero),
             a3 |-> IF interceptA3 = Infinity THEN Null
                    ELSE Vec(SMulQ(interceptA3, -1, 2), SMulQR3(interceptA3, -1, 2), Zero),
             c |-> IF interceptC = Infinity THEN Null ELSE Vec(Zero, Zero, interceptC)]
        values == <<intersections.a1, intersections.a2, intersections.a3,
                    intersections.c>>
    IN  [intersections |-> intersections,
         normal |-> _calculateHexagonalPlaneNormal(params.h, params.k, params.l),
         center |-> _calculatePlaneCenter(values),
         size |-> _calculatePlaneSize(values),
         parameters |-> [h |-> params.h, k |-> params.k, i |-> params.i,
                         l |-> params.l, system |-> params.system],
         intercepts |-> [a1 |-> interceptA1, a2 |-> interceptA2,
                         a3 |-> interceptA3, c |-> interceptC]]


\* The outcome of the body of calculateIntercepts on a cache miss: the
\* error thrown (validateIndices throws before anything is calculated) or
\* the fresh result.
NoResult == [none |-> TRUE]

CalculateFresh(params) ==
    LET err == validateIndices(params)
    IN  IF err # NoError THEN [status |-> "error", error |-> err, result |-> NoResult]
        ELSE IF params.system = "cubic"
        THEN [status |-> "ok", error |-> NoError,
              result |-> _calculateCubicIntercepts(params)]
        ELSE IF params.system = "hexagonal"
        THEN [status |-> "ok", error |-> NoError,
              result |-> _calculateHexagonalIntercepts(params)]
        ELSE [status |-> "error", error |-> ErrUnsupported, result |-> NoResult]

\* Fault variant for C6: the fresh result is returned but never stored.
calculateInterceptsNoStore(c, params) ==
    LET Outcome(cacheKey, out) ==
            IF cacheKey \in DOMAIN c
            THEN [status |-> "ok", error |-> NoError, result |-> c[cacheKey],
                  cache |-> c, computed |-> FALSE]
            ELSE [status |-> out.status, error |-> out.error, result |-> out.result,
                  cache |-> c, computed |-> out.status = "ok"]
    IN  Outcome(_getCacheKey(params), CalculateFresh(params))

\* Fault variant for C7: the catch block clears the cache.
calculateInterceptsClearOnError(c, params) ==
    LET Outcome(cacheKey, out) ==
            IF cacheKey \in DOMAIN c
            THEN [status |-> "ok", error |-> NoError, result |-> c[cacheKey],
                  cache |-> c, computed |-> FALSE]
            ELSE IF out.status = "ok"
            THEN [status |-> "ok", error |-> NoError, result |-> out.result,
                  cache |-> [key \in DOMAIN c \cup {cacheKey} |->
                                IF key = cacheKey THEN out.result ELSE c[key]],
                  computed |-> TRUE]
            ELSE [status |-> "error", error |-> out.error, result |-> NoResult,
                  cache |-> [key \in {} |-> NoResult], computed |-> FALSE]
    IN  Outcome(_getCacheKey(params), CalculateFresh(params))

\* Fault variant for C8: the cache keeps only the entry stored last.
calculateInterceptsLastOnly(c, params) ==
    LET Outcome(cacheKey, out) ==
            IF cacheKey \in DOMAIN c
            THEN [status |-> "ok", error |-> NoError, result |-> c[cacheKey],
                  cache |-> c, computed |-> FALSE]
            ELSE IF out.status = "ok"
            THEN [status |-> "ok", error |-> NoError, result |-> out.result,
                  cache |-> [key \in {cacheKey} |-> out.result],
                  computed |-> TRUE]
            ELSE [status |-> "error", error |-> out.error, result |-> NoResult,
                  cache |-> c, computed |-> FALSE]
    IN  Outcome(_getCacheKey(params), CalculateFresh(params))

\* calculateIntercepts(params) on the cache c: what it returns or throws,
\* the cache it leaves, and whether the calculation ran.
calculateIntercepts(c, params) ==
    LET Outcome(cacheKey, out) ==
            IF cacheKey \in DOMAIN c
            THEN [status |-> "ok", error |-> NoError, result |-> c[cacheKey],
                  cache |-> c, computed |-> FALSE]
            ELSE IF out.status = "ok"
            THEN [status |-> "ok", error |-> NoError, result |-> out.result,
                  cache |-> [key \in DOMAIN c \cup {cacheKey} |->
                                IF key = cacheKey THEN out.result ELSE c[key]],
                  computed |-> TRUE]
            ELSE [status |-> "error", error |-> out.error, result |-> NoResult,
                  cache |-> c, computed |-> FALSE]
    IN  Outcome(_getCacheKey(params), CalculateFresh(params))


\* ------------------------------------------------------------- visualizer
\* DEFAULT_SHAPE.HEXAGONAL.radiusFactor = 0.6 and heightFactor = 1.5
HexRadiusFactor == Sc(3, 5, 0)
HexHeightFactor == Sc(3, 2, 0)
hexRadius == SMulQ(HexRadiusFactor, AXIS_LENGTH, 1)
hexHeight == SMulQ(HexHeightFactor, AXIS_LENGTH, 1)
halfHexHeight == SMulQ(hexHeight, 1, 2)

\* AxisSystem.createHexagonalShape_Custom: the reference shape drawn for the
\* hexagonal system is a prism body between -halfPrismBodyHeight and
\* +halfPrismBodyHeight on the display c-axis (Y), capped by two pyramids
\* of height pyramidHeight.
prismBodyHeight == SMulQ(SMul(Sc(AXIS_LENGTH, 1, 0), HexHeightFactor), 3, 5)
halfPrismBodyHeight == SMulQ(prismBodyHeight, 1, 2)
pyramidHeight == SMulQ(hexRadius, 3, 4)

\* The orientation of a mesh that was never rotated: its face looks along +Z.
FacingZ == Vec(Zero, Zero, One)

\* Fault variant for C27: any string is taken as the new system.
setSystemAnyString(current, systemType) ==
    IF systemType # current THEN systemType ELSE current

\* AxisSystem.setSystem: only a different, supported system is adopted.
setSystem(current, systemType) ==
    IF systemType # current /\ systemType \in {"cubic", "hexagonal"}
    THEN systemType ELSE current

\* Fault variant for C13: the a2 and a3 points keep their calculation-frame
\* coordinates.
TransformHexagonalNoSwap(rawResult) ==
    LET raw == rawResult.intersections
        tIntersects ==
            [c |-> IF raw.c = Null THEN Null ELSE Vec(Zero, raw.c.z, Zero),
             a1 |-> IF raw.a1 = Null THEN Null ELSE Vec(raw.a1.x, Zero, Zero),
             a2 |-> raw.a2,
             a3 |-> raw.a3]
        validTIntersects ==
            ValidPoints(<<tIntersects.c, tIntersects.a1, tIntersects.a2, tIntersects.a3>>)
    IN  [rawResult EXCEPT !.intersections = tIntersects,
                          !.normal = Normalize(Vec(rawResult.normal.x, rawResult.normal.z,
                                                   rawResult.normal.y)),
                          !.center = VDivScalar(SumVec(validTIntersects),
                                                Len(validTIntersects))]

\* The hexagonal display-frame transform of visualize: the calculation
\* frame has c along Z, the display frame has c along Y.
TransformHexagonal(rawResult) ==
    LET raw == rawResult.intersections
        tIntersects ==
            [c |-> IF raw.c = Null THEN Null ELSE Vec(Zero, raw.c.z, Zero),
             a1 |-> IF raw.a1 = Null THEN Null ELSE Vec(raw.a1.x, Zero, Zero),
             a2 |-> IF raw.a2 = Null THEN Null ELSE Vec(raw.a2.x, Zero, raw.a2.y),
             a3 |-> IF raw.a3 = Null THEN Null ELSE Vec(raw.a3.x, Zero, raw.a3.y)]
        tNormal == Normalize(Vec(rawResult.normal.x, rawResult.normal.z,
                                 rawResult.normal.y))
        validTIntersects ==
            ValidPoints(<<tIntersects.c, tIntersects.a1, tIntersects.a2, tIntersects.a3>>)
        tCenter ==
            IF Len(validTIntersects) > 0
            THEN VDivScalar(SumVec(validTIntersects), Len(validTIntersects))
            ELSE Vec(rawResult.center.x, rawResult.center.z, rawResult.center.y)
    IN  [rawResult EXCEPT !.intersections = tIntersects, !.normal = tNormal,
                          !.center = tCenter]

\* Object.values(intersections) of the result handed to createPlane, in the
\* insertion order of the keys (the transform inserts c first).
IntersectionValues(result) ==
    IF result.parameters.system = "cubic"
    THEN <<result.intersections.x, result.intersections.y, result.intersections.z>>
    ELSE <<result.intersections.c, result.intersections.a1,
           result.intersections.a2, result.intersections.a3>>

PlaneGeometry(width, height) ==
    [type |-> "PlaneGeometry", width |-> width, height |-> height]
BufferGeometry(vertices, index) ==
    [type |-> "BufferGeometry", vertices |-> vertices, index |-> index]

\* Shape of six points at radius hexRadius, 60 degrees apart, in the XY
\* plane of the shape.
Cos60 == <<Sc(1, 1, 0), Sc(1, 2, 0), Sc(-1, 2, 0), Sc(-1, 1, 0), Sc(-1, 2, 0), Sc(1, 2, 0)>>
Sin60 == <<Zero, Sc(1, 2, 1), Sc(1, 2, 1), Zero, Sc(-1, 2, 1), Sc(-1, 2, 1)>>
HexagonShapeGeometry ==
    [type |-> "ShapeGeometry",
     outline |-> [n \in 1..6 |-> <<SMul(hexRadius, Cos60[n]), SMul(hexRadius, Sin60[n])>>]]

Mesh(geometry, position, facing) ==
    [geometry |-> geometry, position |-> position, facing |-> facing]

FallbackSize(result) ==
    IF result.size = Zero THEN Sc(DEFAULT_SIZE, 1, 0) ELSE result.size

\* The generic square of createPlane: side size, at center, facing normal.
FallbackSquare(result) ==
    Mesh(PlaneGeometry(FallbackSize(result), FallbackSize(result)),
         result.center, Normalize(result.normal))

\* Fault variant for C10: the triangle case is missing, three points fall
\* through to the generic square.
CubicPlaneNoTriangle(result) ==
    LET params == result.parameters
        validCubicIntersects == ValidPoints(IntersectionValues(result))
    IN  IF Len(validCubicIntersects) = 1
           /\ (IsZeroNumber(params.h) \/ IsZeroNumber(params.k)
                 \/ IsZeroNumber(params.l))
        THEN Mesh(PlaneGeometry(Sc(AXIS_LENGTH, 1, 0), Sc(AXIS_LENGTH, 1, 0)),
                  validCubicIntersects[1], Normalize(result.normal))
        ELSE FallbackSquare(result)

\* Fault variant for C21: the unit-cell face case is missing, a single
\* point falls through to the generic square.
CubicPlaneNoFace(result) ==
    LET validCubicIntersects == ValidPoints(IntersectionValues(result))
    IN  IF Len(validCubicIntersects) = 3
        THEN Mesh(BufferGeometry(validCubicIntersects, <<0, 1, 2>>), Origin, FacingZ)
        ELSE FallbackSquare(result)

CubicPlane(result) ==
    LET params == result.parameters
        validCubicIntersects == ValidPoints(IntersectionValues(result))
    IN  IF Len(validCubicIntersects) = 3
        THEN Mesh(BufferGeometry(validCubicIntersects, <<0, 1, 2>>), Origin, FacingZ)
        ELSE IF Len(validCubicIntersects) = 1
                /\ (IsZeroNumber(params.h) \/ IsZeroNumber(params.k)
                      \/ IsZeroNumber(params.l))
        THEN Mesh(PlaneGeometry(Sc(AXIS_LENGTH, 1, 0), Sc(AXIS_LENGTH, 1, 0)),
                  validCubicIntersects[1], Normalize(result.normal))
        ELSE FallbackSquare(result)

\* Fault variant for C22: the (a1, a2) pair is tried before (a1, a3).
PrismPairHKFirst(params, a1Point, a2Point, a3Point) ==
    LET finiteAIntersects == ValidPoints(<<a1Point, a2Point, a3Point>>)
    IN  IF ~IsZeroNumber(params.h) /\ ~IsZeroNumber(params.k)
           /\ a1Point # Null /\ a2Point # Null THEN <<a1Point, a2Point>>
        ELSE IF ~IsZeroNumber(params.h) /\ ~IsZeroNumber(params.i)
                /\ a1Point # Null /\ a3Point # Null THEN <<a1Point, a3Point>>
        ELSE IF ~IsZeroNumber(params.k) /\ ~IsZeroNumber(params.i)
                /\ a2Point # Null /\ a3Point # Null THEN <<a2Point, a3Point>>
        ELSE IF Len(finiteAIntersects) >= 2
        THEN <<finiteAIntersects[1], finiteAIntersects[2]>>
        ELSE <<Null, Null>>

\* The two a-intercept points of the prism face (hki0), or Null for a
\* point that was not found.
PrismPair(params, a1Point, a2Point, a3Point) ==
    LET finiteAIntersects == ValidPoints(<<a1Point, a2Point, a3Point>>)
    IN  IF ~IsZeroNumber(params.h) /\ ~IsZeroNumber(params.i)
           /\ a1Point # Null /\ a3Point # Null THEN <<a1Point, a3Point>>
        ELSE IF ~IsZeroNumber(params.h) /\ ~IsZeroNumber(params.k)
                /\ a1Point # Null /\ a2Point # Null THEN <<a1Point, a2Point>>
        ELSE IF ~IsZeroNumber(params.k) /\ ~IsZeroNumber(params.i)
                /\ a2Point # Null /\ a3Point # Null THEN <<a2Point, a3Point>>
        ELSE IF Len(finiteAIntersects) >= 2
        THEN <<finiteAIntersects[1], finiteAIntersects[2]>>
        ELSE <<Null, Null>>

\* Fault variant for C23: the pyramidal pair is chosen in the preference
\* order of the prism case.
PyramidalPairPrismOrder(params, a1Point, a2Point, a3Point) ==
    PrismPair(params, a1Point, a2Point, a3Point)

\* The two a-intercept points of the pyramidal triangle, chosen by the
\* sequence of assignments to p_a_1 and p_a_2.
PyramidalPair(params, a1Point, a2Point, a3Point) ==
    LET finiteAIntersects == ValidPoints(<<a1Point, a2Point, a3Point>>)
        use1 == ~IsZeroNumber(params.h) /\ a1Point # Null
        use2 == ~IsZeroNumber(params.k) /\ a2Point # Null
        use3 == ~IsZeroNumber(params.i) /\ a3Point # Null
        p1a == IF use1 THEN a1Point ELSE Null
        p1b == IF use2 /\ p1a = Null THEN a2Point ELSE p1a
        p2b == IF use2 /\ p1a # Null /\ a2Point # p1a THEN a2Point ELSE Null
        p1c == IF use3 /\ p1b = Null THEN a3Point ELSE p1b
        p2c == IF use3 /\ p1b # Null /\ p2b = Null /\ a3Point # p1b
               THEN a3Point ELSE p2b
        p1d == IF p1c = Null /\ Len(finiteAIntersects) > 0
               THEN finiteAIntersects[1] ELSE p1c
        p2d == IF p2c = Null /\ Len(finiteAIntersects) > 1
                  /\ finiteAIntersects[2] # p1d
               THEN finiteAIntersects[2] ELSE p2c
    IN  <<p1d, p2d>>

\* Fault variant for C25: the pyramidal case is missing, indices with l and
\* an a-index not 0 fall through to the generic square.
HexagonalPlaneNoPyramidal(result) ==
    LET params == result.parameters
        cPoint == result.intersections.c
        a1Point == result.intersections.a1
        a2Point == result.intersections.a2
        a3Point == result.intersections.a3
        finiteAIntersects == ValidPoints(<<a1Point, a2Point, a3Point>>)
        prism == PrismPair(params, a1Point, a2Point, a3Point)
    IN  IF IsZeroNumber(params.h) /\ IsZeroNumber(params.k) /\ IsZeroNumber(params.i)
           /\ ~IsZeroNumber(params.l) /\ cPoint # Null
        THEN Mesh(HexagonShapeGeometry, Vec(Zero, cPoint.y, Zero),
                  Normalize(result.normal))
        ELSE IF IsZeroNumber(params.l) /\ Len(finiteAIntersects) >= 2
        THEN IF prism[1] # Null /\ prism[2] # Null /\ prism[1] # prism[2]
             THEN Mesh(BufferGeometry(
                           <<Vec(prism[1].x, halfHexHeight, prism[1].z),
                             Vec(prism[1].x, SNeg(halfHexHeight), prism[1].z),
                             Vec(prism[2].x, halfHexHeight, prism[2].z),
                             Vec(prism[2].x, SNeg(halfHexHeight), prism[2].z)>>,
                           <<0, 1, 2, 1, 3, 2>>), Origin, FacingZ)
             ELSE FallbackSquare(result)
        ELSE FallbackSquare(result)

HexagonalPlane(result) ==
    LET params == result.parameters
        cPoint == result.intersections.c
        a1Point == result.intersections.a1
        a2Point == result.intersections.a2
        a3Point == result.intersections.a3
        finiteAIntersects == ValidPoints(<<a1Point, a2Point, a3Point>>)
        prism == PrismPair(params, a1Point, a2Point, a3Point)
        pyr == PyramidalPair(params, a1Point, a2Point, a3Point)
    IN  IF IsZeroNumber(params.h) /\ IsZeroNumber(params.k) /\ IsZeroNumber(params.i)
           /\ ~IsZeroNumber(params.l) /\ cPoint # Null
        THEN Mesh(HexagonShapeGeometry, Vec(Zero, cPoint.y, Zero),
                  Normalize(result.normal))
        ELSE IF IsZeroNumber(params.l) /\ Len(finiteAIntersects) >= 2
        THEN IF prism[1] # Null /\ prism[2] # Null /\ prism[1] # prism[2]
             THEN Mesh(BufferGeometry(
                           <<Vec(prism[1].x, halfHexHeight, prism[1].z),
                             Vec(prism[1].x, SNeg(halfHexHeight), prism[1].z),
                             Vec(prism[2].x, halfHexHeight, prism[2].z),
                             Vec(prism[2].x, SNeg(halfHexHeight), prism[2].z)>>,
                           <<0, 1, 2, 1, 3, 2>>), Origin, FacingZ)
             ELSE FallbackSquare(result)
        ELSE IF ~IsZeroNumber(params.l) /\ cPoint # Null /\ Len(finiteAIntersects) >= 2
        THEN IF pyr[1] # Null /\ pyr[2] # Null
             THEN Mesh(BufferGeometry(<<cPoint, pyr[1], pyr[2]>>, <<0, 1, 2>>),
                       Origin, FacingZ)
             ELSE FallbackSquare(result)
        ELSE FallbackSquare(result)

\* createPlane(result): the mesh added to the scene.
createPlane(result) ==
    IF result.parameters.system = "cubic" THEN CubicPlane(result)
    ELSE IF result.parameters.system = "hexagonal" THEN HexagonalPlane(result)
    ELSE Mesh(PlaneGeometry(Sc(DEFAULT_SIZE, 1, 0), Sc(DEFAULT_SIZE, 1, 0)),
              Origin, FacingZ)

\* createIntersectionPoints: one marker per finite point, at that point.
createIntersectionPoints(result) == ValidPoints(IntersectionValues(result))

\* Fault variant for C24: the crystal axes a, b, c drawn along x, y, z.
createCubicAxesABC ==
    <<[name |-> "a", dir |-> Vec(One, Zero, Zero)],
      [name |-> "b", dir |-> Vec(Zero, One, Zero)],
      [name |-> "c", dir |-> Vec(Zero, Zero, One)]>>

\* AxisSystem.createCubicAxes: the axes drawn for the cubic system, each a
\* line from -AXIS.LENGTH to +AXIS.LENGTH along its direction.
createCubicAxes ==
    <<[name |-> "b", dir |-> Vec(One, Zero, Zero)],
      [name |-> "c", dir |-> Vec(Zero, One, Zero)],
      [name |-> "a", dir |-> Vec(Zero, Zero, One)]>>


\* ------------------------------------------------------------------ state
VARIABLES
    cache,          \* InterceptCalculator._cache: cache key -> result
    computeCount,   \* number of calculations run so far (cache misses stored)
    lastOp,         \* the operation that ran last
    ret,            \* what the last calculateIntercepts returned or threw
    axisSystem,     \* AxisSystem.system of the visualizer
    planeMesh,      \* MillerVisualizer.planeMesh (Null when absent)
    markers,        \* positions of MillerVisualizer.intersectionPointMeshes
    visRet,         \* return value of the last visualize ("none" before)
    undisposed,     \* number of geometry and material objects that the
                    \* visualizer created and has not disposed
    crystalSystemSelect,    \* value of the crystal-system dropdown
    hInput,         \* value of the h field
    kInput,         \* value of the k field
    iInput,         \* value of the i field
    lInput,         \* value of the l field
    file,           \* the source file the MillerVisualizer class is loaded from
    renderer,       \* MillerVisualizer.renderer: "live", or "null" once disposed
    rendererWidth,  \* the width last given to renderer.setSize
    animationFrame, \* MillerVisualizer.animationFrame: id of the last request
    frames,         \* ids of the animation-frame callbacks that are scheduled
    frameCount,     \* number of animation frames requested so far
    resizeObserver, \* "none", "observing" or "disconnected"
    windowListeners \* the functions registered for the window resize event

\* The form of MillerIndicesApp.
form == <<crystalSystemSelect, hInput, kInput, iInput, lInput>>

\* What the visualizer has registered with the browser.
life == <<file, renderer, rendererWidth, animationFrame, frames, frameCount,
          resizeObserver, windowListeners>>

vars == <<cache, computeCount, lastOp, ret, axisSystem, planeMesh, markers, visRet,
          undisposed, form, life>>

\* The value of an empty field.
Empty == [t |-> "empty", v |-> 0]

NoCall == [params |-> NoResult, status |-> "none", error |-> NoError,
           result |-> NoResult, hit |-> FALSE]

EmptyCache == [key \in {} |-> NoResult]

\* setupEventListeners: with ResizeObserver in window an observer of the
\* container, else a listener of the window resize event, which is
\* this.boundResizeHandler in part_000 and an unnamed bound function in
\* MillerVisualizer.js.
setupEventListeners(sourceFile, hasResizeObserver) ==
    IF hasResizeObserver
    THEN [resizeObserver |-> "observing", windowListeners |-> {}]
    ELSE [resizeObserver |-> "none",
          windowListeners |-> {IF sourceFile = "part_000" THEN "boundResizeHandler"
                               ELSE "handleResize.bind#1"}]

\* The visualizer after its constructor: renderer made and sized to the
\* container, listeners set up, animate() called once.
Constructed(sourceFile, hasResizeObserver) ==
    /\ file = sourceFile
    /\ renderer = "live"
    /\ rendererWidth = 1
    /\ resizeObserver = setupEventListeners(sourceFile, hasResizeObserver).resizeObserver
    /\ windowListeners = setupEventListeners(sourceFile, hasResizeObserver).windowListeners
    /\ animationFrame = 1
    /\ frames = {1}
    /\ frameCount = 1

InitApp ==
    /\ cache = EmptyCache
    /\ computeCount = 0
    /\ lastOp = "none"
    /\ ret = NoCall
    /\ axisSystem = "cubic"
    /\ planeMesh = Null
    /\ markers = <<>>
    /\ visRet = "none"
    /\ undisposed = 0
    /\ crystalSystemSelect = "cubic"
    /\ hInput = Empty
    /\ kInput = Empty
    /\ iInput = Empty
    /\ lInput = Empty

\* The application in a browser with ResizeObserver.
Init == InitApp /\ Constructed("part_000", TRUE)

\* ----------------------------------------------------------------- inputs
\* Numbers that are no valid index: NaN, the infinities and non-integers.
SpecialNumbers == {NaN, PosInf, NegInf, HalfNum(1), HalfNum(-3)}

\* Integers around and beyond the configured range [MIN_VALUE, MAX_VALUE];
\* -2 * MAX_VALUE is the i derived from h = k = MAX_VALUE.
RangeEdgeNumbers == {IntNum(MAX_VALUE), IntNum(MAX_VALUE + 1), IntNum(-(2 * MAX_VALUE))}

WideNumbers == {IntNum(n) : n \in (-MaxIdx)..MaxIdx} \cup RangeEdgeNumbers
                   \cup SpecialNumbers

CubicParams(S) == [system : {"cubic"}, h : S, k : S, l : S]
HexParams(S) == [system : {"hexagonal"}, h : S, k : S, i : S, l : S]
OtherParams(S) == [system : {"tetragonal"}, h : S, k : S, l : S]

WideParams == CubicParams(WideNumbers) \cup HexParams(WideNumbers)
                  \cup OtherParams(WideNumbers)

\* The inputs of the call sequences of Spec: indices 0 and 1 (and i in
\* {-1, 0}), plus one index set of each rejected kind.
Bits == {IntNum(0), IntNum(1)}
NegBits == {IntNum(-1), IntNum(0)}
SmallParams ==
    CubicParams(Bits)
        \cup [system : {"hexagonal"}, h : Bits, k : Bits, i : NegBits, l : Bits]
        \cup [system : {"tetragonal"}, h : {IntNum(1)}, k : Bits, l : {IntNum(0)}]
        \cup [system : {"cubic"}, h : {NaN, HalfNum(1), IntNum(-1)}, k : {IntNum(1)},
              l : {IntNum(0)}]
        \cup [system : {"hexagonal"}, h : {IntNum(1)}, k : {IntNum(0)},
              i : {IntNum(-1)}, l : {PosInf, HalfNum(1)}]

\* ---------------------------------------------------------------- actions
\* calculator.calculateIntercepts(params), called on the calculator. At most
\* MaxComputes calculations are run (the bound of the exploration).
DoCalculate(params) ==
    LET Return(out) ==
            /\ out.computed => computeCount < MaxComputes
            /\ cache' = out.cache
            /\ computeCount' = IF out.computed THEN computeCount + 1 ELSE computeCount
            /\ lastOp' = "calculateIntercepts"
            /\ ret' = [params |-> params, status |-> out.status, error |-> out.error,
                       result |-> out.result,
                       hit |-> out.status = "ok" /\ ~out.computed]
            /\ UNCHANGED <<axisSystem, planeMesh, markers, visRet, undisposed, form,
                           life>>
    IN  Return(calculateIntercepts(cache, params))

CalculateIntercepts == \E params \in SmallParams : DoCalculate(params)

\* calculator.clearCache()
ClearCache ==
    /\ cache' = EmptyCache
    /\ lastOp' = "clearCache"
    /\ ret' = NoCall
    /\ UNCHANGED <<computeCount, axisSystem, planeMesh, markers, visRet, undisposed,
                   form, life>>

\* createPlane makes one geometry and one MeshPhongMaterial for the plane.
PlaneResources == 2

\* createIntersectionPoints makes one SphereGeometry and one
\* MeshBasicMaterial, shared by the markers of the call.
MarkerResources == 2

\* clearVisualizationElements: the geometry and the material of the plane
\* mesh, if there is one, are disposed; the marker meshes are only removed
\* from the scene.  The number of undisposed objects that remain.
clearVisualizationElements(n, mesh) ==
    IF mesh # Null THEN n - PlaneResources ELSE n

\* Fault variant for C26: the display transform writes its vectors into the
\* raw result instead of into a new object.
rawResultAfterVisualizeInPlace(rawResult) ==
    IF rawResult.parameters.system = "hexagonal"
    THEN TransformHexagonal(rawResult) ELSE rawResult

\* The raw result object, which is the object the cache holds, as visualize
\* leaves it: the transform writes to new vectors and a new object, and
\* createPlane and createIntersectionPoints clone or copy what they read,
\* so no field of it is written.
rawResultAfterVisualize(rawResult) == rawResult

\* Fault variant for C28: the catch block clears the scene and returns
\* nothing.
visualizeCatchNoReturn == [planeMesh |-> Null, markers |-> <<>>, returns |-> "undefined"]

\* The catch block of visualize: clearVisualizationElements() leaves no
\* plane mesh and no markers, and false is returned.
visualizeCatch == [planeMesh |-> Null, markers |-> <<>>, returns |-> "false"]

\* visualizer.visualize(params): switch the axis system, clear the previous
\* elements, calculate, transform (hexagonal), build plane and markers; on
\* any error clear again and return false.
DoVisualize(params) ==
    LET Draw(visualResult) ==
            /\ planeMesh' = createPlane(visualResult)
            /\ markers' = createIntersectionPoints(visualResult)
            /\ visRet' = "true"
            /\ undisposed' = clearVisualizationElements(undisposed, planeMesh)
                                + PlaneResources + MarkerResources
        Return(axis, out) ==
            /\ UNCHANGED <<form, life>>
            /\ axisSystem' = axis
            /\ cache' = IF out.status = "ok"
                        THEN [out.cache EXCEPT ![_getCacheKey(params)] =
                                  rawResultAfterVisualize(out.result)]
                        ELSE out.cache
            /\ computeCount' = IF out.computed THEN computeCount + 1 ELSE computeCount
            /\ lastOp' = "visualize"
            /\ ret' = [params |-> params, status |-> out.status, error |-> out.error,
                       result |-> out.result,
                       hit |-> out.status = "ok" /\ ~out.computed]
            /\ IF out.status = "ok"
               THEN Draw(IF params.system = "hexagonal" /\ axis = "hexagonal"
                         THEN TransformHexagonal(out.result) ELSE out.result)
               ELSE /\ planeMesh' = visualizeCatch.planeMesh
                    /\ markers' = visualizeCatch.markers
                    /\ visRet' = visualizeCatch.returns
                    /\ undisposed' = clearVisualizationElements(undisposed, planeMesh)
    IN  Return(setSystem(axisSystem, params.system), calculateIntercepts(cache, params))

Next == CalculateIntercepts \/ ClearCache

Spec == Init /\ [][Next]_vars

\* One call on a freshly constructed calculator / visualizer, with the
\* indices drawn from the wide set of numbers.
CalculateOnce ==
    /\ lastOp = "none"
    /\ \E params \in WideParams : DoCalculate(params)

VisualizeOnce ==
    /\ lastOp = "none"
    /\ \E params \in WideParams : DoVisualize(params)

NextOnce == CalculateOnce \/ VisualizeOnce

SpecOnce == Init /\ [][NextOnce]_vars

\* MillerIndicesApp.handleReset: empty the fields, select cubic, hide the
\* i field, clear the plane and the markers, and set the axis system back
\* to cubic.
handleReset ==
    /\ hInput' = Empty
    /\ kInput' = Empty
    /\ lInput' = Empty
    /\ crystalSystemSelect' = "cubic"
    /\ iInput' = Empty
    /\ undisposed' = clearVisualizationElements(undisposed, planeMesh)
    /\ planeMesh' = Null
    /\ markers' = <<>>
    /\ axisSystem' = IF axisSystem # "cubic" THEN setSystem(axisSystem, "cubic")
                     ELSE axisSystem
    /\ lastOp' = "handleReset"
    /\ ret' = NoCall
    /\ visRet' = "none"
    /\ UNCHANGED <<cache, computeCount, life>>

\* Index sets for sequences of visualize calls: cubic and hexagonal sets of
\* every plane shape, two that validation rejects, and one of a system that
\* is not supported.
DrawParams ==
    [system : {"cubic"}, h : {IntNum(1)}, k : Bits, l : Bits]
        \cup {[system |-> "cubic", h |-> IntNum(0), k |-> IntNum(0), l |-> IntNum(0)]}
        \cup [system : {"hexagonal"}, h : {IntNum(1)}, k : {IntNum(0)},
              i : {IntNum(-1)}, l : Bits]
        \cup [system : {"hexagonal"}, h : {IntNum(0)}, k : {IntNum(0)},
              i : {IntNum(0)}, l : {IntNum(1), IntNum(-2)}]
        \cup {[system |-> "hexagonal", h |-> IntNum(1), k |-> IntNum(1),
               i |-> IntNum(0), l |-> IntNum(0)]}
        \cup {[system |-> "tetragonal", h |-> IntNum(1), k |-> IntNum(0),
               l |-> IntNum(0)]}

\* visualizer.visualize(params), called again and again on one visualizer.
Visualize ==
    /\ undisposed < MaxResources
    /\ \E params \in DrawParams : DoVisualize(params)

NextDraw == Visualize \/ ClearCache \/ handleReset

SpecDraw == Init /\ [][NextDraw]_vars

\* ------------------------------------------------------------------- form
\* parseInt of the value of a number field: NaN for an empty field, else the
\* integer part of the number.
parseInt(value) ==
    IF value.t = "int" THEN value
    ELSE IF value.t = "frac"
    THEN IntNum(IF value.v >= 0 THEN value.v \div 2 ELSE -((-value.v) \div 2))
    ELSE NaN

\* UTILS.validateInput: the field is not empty and parseInt of it is an
\* integer of the configured range.
validateInput(input) ==
    /\ input # Empty
    /\ NumberIsInteger(parseInt(input))
    /\ parseInt(input).v >= MIN_VALUE
    /\ parseInt(input).v <= MAX_VALUE

validateAllInputs ==
    validateInput(hInput) /\ validateInput(kInput) /\ validateInput(lInput)

\* updateIIndex: the value it leaves in the i field.
updateIIndex(selectedSystem, h, k, i) ==
    IF selectedSystem # "hexagonal" THEN i
    ELSE IF NumberIsInteger(parseInt(h)) /\ NumberIsInteger(parseInt(k))
    THEN IntNum(-(parseInt(h).v + parseInt(k).v))
    ELSE Empty

\* Fault variant for C29: selecting hexagonal shows the i field without
\* calculating it.
updateUIForCrystalSystemNoUpdate(selectedSystem, h, k, i) ==
    IF selectedSystem = "hexagonal" THEN i ELSE Empty

\* updateUIForCrystalSystem: the value it leaves in the i field.
updateUIForCrystalSystem(selectedSystem, h, k, i) ==
    IF selectedSystem = "hexagonal" THEN updateIIndex(selectedSystem, h, k, i)
    ELSE Empty

\* What the user types into a field: nothing, an integer or a decimal.
FieldValues == {Empty, IntNum(0), HalfNum(-3)}

\* An input event of the h field.
InputH ==
    /\ \E value \in FieldValues :
          /\ hInput' = value
          /\ iInput' = updateIIndex(crystalSystemSelect, value, kInput, iInput)
    /\ lastOp' = "input"
    /\ UNCHANGED <<cache, computeCount, ret, axisSystem, planeMesh, markers, visRet,
                   undisposed, crystalSystemSelect, kInput, lInput, life>>

\* An input event of the k field.
InputK ==
    /\ \E value \in FieldValues :
          /\ kInput' = value
          /\ iInput' = updateIIndex(crystalSystemSelect, hInput, value, iInput)
    /\ lastOp' = "input"
    /\ UNCHANGED <<cache, computeCount, ret, axisSystem, planeMesh, markers, visRet,
                   undisposed, crystalSystemSelect, hInput, lInput, life>>

\* An input event of the l field.
InputL ==
    /\ \E value \in FieldValues : lInput' = value
    /\ lastOp' = "input"
    /\ UNCHANGED <<cache, computeCount, ret, axisSystem, planeMesh, markers, visRet,
                   undisposed, crystalSystemSelect, hInput, kInput, iInput, life>>

\* A change event of the crystal-system dropdown.
ChangeCrystalSystem ==
    /\ \E selectedSystem \in {"cubic", "hexagonal"} :
          /\ crystalSystemSelect' = selectedSystem
          /\ iInput' = updateUIForCrystalSystem(selectedSystem, hInput, kInput, iInput)
    /\ lastOp' = "change"
    /\ UNCHANGED <<cache, computeCount, ret, axisSystem, planeMesh, markers, visRet,
                   undisposed, hInput, kInput, lInput, life>>

\* The parameters handleGenerate builds from the fields.
calculationParams ==
    IF crystalSystemSelect = "hexagonal"
    THEN [h |-> parseInt(hInput), k |-> parseInt(kInput), i |-> parseInt(iInput),
          l |-> parseInt(lInput), system |-> "hexagonal"]
    ELSE [h |-> parseInt(hInput), k |-> parseInt(kInput), l |-> parseInt(lInput),
          system |-> "cubic"]

\* handleGenerate throws before it calls visualize: a field is not valid,
\* the hexagonal h, k, i are not integers of sum 0, or all indices are 0.
GenerateRejected ==
    \/ ~validateAllInputs
    \/ /\ crystalSystemSelect = "hexagonal"
       /\ \/ ~NumberIsInteger(parseInt(iInput))
          \/ parseInt(hInput).v + parseInt(kInput).v + parseInt(iInput).v # 0
    \/ /\ IsZeroNumber(parseInt(hInput)) /\ IsZeroNumber(parseInt(kInput))
       /\ IsZeroNumber(parseInt(lInput))
       /\ (crystalSystemSelect = "cubic" \/ IsZeroNumber(parseInt(iInput)))

\* MillerIndicesApp.handleGenerate (button or Enter key); it is explored
\* while fewer than MaxGenerates calculations have run.
handleGenerate ==
    /\ computeCount < MaxGenerates
    /\ undisposed < MaxResources
    /\ IF GenerateRejected
       THEN /\ lastOp' = "handleGenerate"
            /\ UNCHANGED <<cache, computeCount, ret, axisSystem, planeMesh, markers,
                           visRet, undisposed, form, life>>
       ELSE DoVisualize(calculationParams)

NextForm ==
    InputH \/ InputK \/ InputL \/ ChangeCrystalSystem \/ handleGenerate \/ handleReset

SpecForm == Init /\ [][NextForm]_vars

\* -------------------------------------------------------------- lifecycle
\* handleResize: nothing without a renderer or with an empty container,
\* else the renderer takes the size of the container.
handleResize(width) ==
    IF renderer = "null" \/ width = 0 THEN rendererWidth ELSE width

\* The widths of the container at a resize.
ContainerWidths == {0, 1, 2}

\* The ResizeObserver reports a resize of the container.
ResizeObserved ==
    /\ resizeObserver = "observing"
    /\ \E width \in ContainerWidths : rendererWidth' = handleResize(width)
    /\ lastOp' = "handleResize"
    /\ UNCHANGED <<cache, computeCount, ret, axisSystem, planeMesh, markers, visRet,
                   undisposed, form, file, renderer, animationFrame, frames, frameCount,
                   resizeObserver, windowListeners>>

\* The window fires resize and calls a registered listener.
WindowResize ==
    /\ windowListeners # {}
    /\ \E width \in ContainerWidths : rendererWidth' = handleResize(width)
    /\ lastOp' = "handleResize"
    /\ UNCHANGED <<cache, computeCount, ret, axisSystem, planeMesh, markers, visRet,
                   undisposed, form, file, renderer, animationFrame, frames, frameCount,
                   resizeObserver, windowListeners>>

\* The browser runs a scheduled animation-frame callback: animate() returns
\* at once without a renderer, else requests the next frame and renders.
\* At most MaxFrames frames are requested (the bound of the exploration).
animate ==
    /\ \E id \in frames :
          IF renderer = "null"
          THEN /\ frames' = frames \ {id}
               /\ UNCHANGED <<animationFrame, frameCount>>
          ELSE /\ frameCount < MaxFrames
               /\ frameCount' = frameCount + 1
               /\ animationFrame' = frameCount + 1
               /\ frames' = (frames \ {id}) \cup {frameCount + 1}
    /\ lastOp' = "animate"
    /\ UNCHANGED <<cache, computeCount, ret, axisSystem, planeMesh, markers, visRet,
                   undisposed, form, file, renderer, rendererWidth, resizeObserver,
                   windowListeners>>

\* The listeners of the window resize event that dispose leaves: part_000
\* removes this.boundResizeHandler, the function it registered;
\* MillerVisualizer.js removes a new handleResize.bind(this), which is not
\* the function it registered.
removeEventListener(sourceFile, listeners) ==
    IF sourceFile = "part_000" THEN listeners \ {"boundResizeHandler"}
    ELSE listeners \ {"handleResize.bind#2"}

\* MillerVisualizer.dispose()
dispose ==
    /\ frames' = IF animationFrame # 0 THEN frames \ {animationFrame} ELSE frames
    /\ animationFrame' = IF file = "part_000" THEN animationFrame ELSE 0
    /\ resizeObserver' = IF resizeObserver # "none" THEN "disconnected" ELSE resizeObserver
    /\ windowListeners' = IF resizeObserver # "none" THEN windowListeners
                          ELSE removeEventListener(file, windowListeners)
    /\ axisSystem' = "null"
    /\ undisposed' = clearVisualizationElements(undisposed, planeMesh)
    /\ planeMesh' = Null
    /\ markers' = <<>>
    /\ renderer' = "null"
    /\ lastOp' = "dispose"
    /\ UNCHANGED <<cache, computeCount, ret, visRet, form, file, rendererWidth,
                   frameCount>>

NextLife == ResizeObserved \/ WindowResize \/ animate \/ dispose

\* The visualizer of either source file, in a browser with or without
\* ResizeObserver.
InitLife ==
    /\ InitApp
    /\ \E sourceFile \in {"part_000", "MillerVisualizer.js"}, hasResizeObserver \in BOOLEAN :
          Constructed(sourceFile, hasResizeObserver)

SpecLife == InitLife /\ [][NextLife]_vars


\* ================================================================= claims
\* A calculateIntercepts call has been made and its outcome is in ret.
Called == ret.status # "none"

\* The index components of a parameter object.
Components(params) ==
    IF params.system = "hexagonal"
    THEN <<params.h, params.k, params.i, params.l>>
    ELSE <<params.h, params.k, params.l>>

AllIntegers(params) ==
    \A n \in DOMAIN Components(params) : NumberIsInteger(Components(params)[n])

AllZero(params) ==
    \A n \in DOMAIN Components(params) : IsZeroNumber(Components(params)[n])

Failed == ret.status = "error" /\ ret.result = NoResult

\* C1: in the hexagonal system, calculateIntercepts on integer indices with
\* h + k + i # 0 throws the error naming the h + k + i = 0 constraint and
\* returns no result.
C1_HexConstraintRejected ==
    (Called /\ ret.params.system = "hexagonal" /\ AllIntegers(ret.params)
        /\ ret.params.h.v + ret.params.k.v + ret.params.i.v # 0)
    => (Failed /\ ret.error = ErrHexConstraint)

\* C1 witness: the call on hexagonal (1,1,0,0) has failed with that error.
C1_Witness ==
    /\ Called
    /\ ret.params = [system |-> "hexagonal", h |-> IntNum(1), k |-> IntNum(1),
                     i |-> IntNum(0), l |-> IntNum(0)]
    /\ ret.error = ErrHexConstraint

\* C2: in both systems, calculateIntercepts on the all-zero index set throws
\* the all-zero error and returns no result.
C2_AllZeroRejected ==
    (Called /\ ret.params.system \in {"cubic", "hexagonal"} /\ AllZero(ret.params))
    => (Failed /\ ret.error = ErrAllZero)

\* C2 witness: the hexagonal all-zero call has failed with the all-zero error.
C2_Witness ==
    /\ Called
    /\ ret.params.system = "hexagonal"
    /\ AllZero(ret.params)
    /\ ret.error = ErrAllZero

InRange(x) == NumberIsInteger(x) => (MIN_VALUE <= x.v /\ x.v <= MAX_VALUE)

AllInRange(params) ==
    \A n \in DOMAIN Components(params) : InRange(Components(params)[n])

\* C3: an index set with an integer component outside
\* [MIN_VALUE, MAX_VALUE] fails and is never computed or visualized.
C3_RangeEnforced ==
    (Called /\ ~AllInRange(ret.params))
    => (Failed /\ visRet # "true" /\ planeMesh = Null)

\* C4: an index set of either system with a component that is not a finite
\* integer (NaN, a non-integer, an infinity) is rejected by validation, and
\* calculateIntercepts on it fails with the integer error, without a result
\* and without a cache entry.
C4_NonIntegerRejected ==
    (Called /\ ret.params.system \in {"cubic", "hexagonal"} /\ ~AllIntegers(ret.params))
    => (/\ Failed
        /\ ret.error = (IF ret.params.system = "cubic" THEN ErrCubicInteger
                        ELSE ErrHexInteger)
        /\ cache = EmptyCache)

\* C4 witness: a hexagonal call whose only defect is l = -Infinity (the
\* other indices are integers with h + k + i = 0) has failed.
C4_Witness ==
    /\ Called
    /\ ret.params.system = "hexagonal"
    /\ ret.params.l = NegInf
    /\ NumberIsInteger(ret.params.h) /\ NumberIsInteger(ret.params.k)
    /\ NumberIsInteger(ret.params.i)
    /\ ret.params.h.v + ret.params.k.v + ret.params.i.v = 0
    /\ ret.status = "error"


\* C5: whatever the cache holds after earlier calls, calculateIntercepts on
\* parameters that validateIndices rejects (an invalid index set or an
\* unsupported system) throws and returns no result, cached or fresh.
C5_RevalidatesEveryCall ==
    (Called /\ validateIndices(ret.params) # NoError)
    => (Failed /\ ~ret.hit /\ ret.error = validateIndices(ret.params))

\* C5 witness: a rejected call made while the cache holds an entry.
C5_Witness ==
    /\ Called
    /\ ret.status = "error"
    /\ cache # EmptyCache

\* The step is a calculateIntercepts call (its outcome is in ret').
CallStep == lastOp' = "calculateIntercepts"

\* C6: a calculateIntercepts call that repeats the parameters of the
\* previous successful call, or whose key is still in the cache, returns the
\* result of the first computation, taken from the cache: the calculation
\* does not run again and the cache is left as it is.
C6_RepeatServedFromCache ==
    [][ (CallStep /\ (\/ (ret.status = "ok" /\ ret'.params = ret.params)
                      \/ _getCacheKey(ret'.params) \in DOMAIN cache))
        => (/\ ret'.status = "ok"
            /\ ret'.hit
            /\ ret'.result = cache[_getCacheKey(ret'.params)]
            /\ (ret.status = "ok" /\ ret'.params = ret.params
                    => ret'.result = ret.result)
            /\ computeCount' = computeCount
            /\ cache' = cache) ]_vars

\* C6 witness: a call has been served from the cache after two calculations.
C6_Witness ==
    /\ Called
    /\ ret.hit
    /\ computeCount = 2

\* C7: a calculateIntercepts call that throws leaves the cache as it was.
C7_FailureKeepsCache ==
    [][ (CallStep /\ ret'.status = "error")
        => (cache' = cache /\ computeCount' = computeCount) ]_vars

\* C7 witness: a call has failed while the cache holds two entries.
C7_Witness ==
    /\ Called
    /\ ret.status = "error"
    /\ Cardinality(DOMAIN cache) = 2

\* C8: a cache entry is created by the first successful computation for its
\* key; every step other than clearCache keeps every entry with its result
\* (adding at most the entry just computed), and clearCache empties the
\* cache.
C8_EntriesKeptUntilClear ==
    [][ /\ lastOp' # "clearCache"
            => /\ \A key \in DOMAIN cache :
                      key \in DOMAIN cache' /\ cache'[key] = cache[key]
               /\ DOMAIN cache' \subseteq DOMAIN cache \cup {_getCacheKey(ret'.params)}
        /\ (CallStep /\ ret'.status = "ok" /\ ~ret'.hit)
            => /\ _getCacheKey(ret'.params) \notin DOMAIN cache
               /\ _getCacheKey(ret'.params) \in DOMAIN cache'
               /\ cache'[_getCacheKey(ret'.params)] = ret'.result
               /\ computeCount' = computeCount + 1
        /\ lastOp' = "clearCache" => cache' = EmptyCache ]_vars

\* C8 witness: a second entry has been added next to an earlier one.
C8_Witness ==
    /\ lastOp = "calculateIntercepts"
    /\ ret.status = "ok"
    /\ ~ret.hit
    /\ Cardinality(DOMAIN cache) = 2

\* The index that belongs to an axis of the result: cubic x, y, z carry the
\* b-, c- and a-axis (indices k, l, h); hexagonal a1, a2, a3, c carry h, k,
\* i, l.
AxisIndex(params, axis) ==
    CASE axis = "x" -> params.k
      [] axis = "y" -> params.l
      [] axis = "z" -> params.h
      [] axis = "a1" -> params.h
      [] axis = "a2" -> params.k
      [] axis = "a3" -> params.i
      [] axis = "c" -> params.l

\* The direction of an axis in the calculation frame: the coordinate axes
\* for cubic; a1 at 0, a2 at 120 and a3 at 240 degrees in the XY plane and
\* c along Z for hexagonal.
AxisDirection(axis) ==
    CASE axis = "x" -> Vec(One, Zero, Zero)
      [] axis = "y" -> Vec(Zero, One, Zero)
      [] axis = "z" -> Vec(Zero, Zero, One)
      [] axis = "a1" -> Vec(One, Zero, Zero)
      [] axis = "a2" -> Vec(Sc(-1, 2, 0), Sc(1, 2, 1), Zero)
      [] axis = "a3" -> Vec(Sc(-1, 2, 0), Sc(-1, 2, 1), Zero)
      [] axis = "c" -> Vec(Zero, Zero, One)

\* C9: in a result, an axis has no intersection point exactly when its
\* index is 0, and the point of a nonzero index n is the direction of the
\* axis scaled by 1/n.
C9_PointsOnAxes ==
    (Called /\ ret.status = "ok")
    => \A axis \in DOMAIN ret.result.intersections :
           LET n == AxisIndex(ret.params, axis)
               point == ret.result.intersections[axis]
           IN  /\ (point = Null) <=> IsZeroNumber(n)
               /\ ~IsZeroNumber(n) => point = VScale(AxisDirection(axis), Sc(1, n.v, 0))

\* C9 witness: a hexagonal result with no point on a2 (k = 0) and a point
\* on the negative side of a3 (i < 0).
C9_Witness ==
    /\ Called
    /\ ret.status = "ok"
    /\ ret.params.system = "hexagonal"
    /\ ret.result.intersections.a2 = Null
    /\ ret.params.i.v < 0
    /\ ret.result.intersections.a3 # Null

NoZeroComponent(params) ==
    \A n \in DOMAIN Components(params) : ~IsZeroNumber(Components(params)[n])

\* C10: visualize on a valid cubic index set without a zero component
\* succeeds with 3 finite intersection points and builds one triangle whose
\* vertices are those 3 points (the mesh is neither moved nor rotated).
C10_CubicTriangle ==
    (lastOp = "visualize" /\ ret.params.system = "cubic"
        /\ validateIndices(ret.params) = NoError /\ NoZeroComponent(ret.params))
    => (/\ visRet = "true"
        /\ \A axis \in {"x", "y", "z"} : ret.result.intersections[axis] # Null
        /\ planeMesh # Null
        /\ planeMesh.geometry.type = "BufferGeometry"
        /\ planeMesh.geometry.index = <<0, 1, 2>>
        /\ planeMesh.geometry.vertices
               = <<ret.result.intersections.x, ret.result.intersections.y,
                   ret.result.intersections.z>>
        /\ planeMesh.position = Origin
        /\ planeMesh.facing = FacingZ
        /\ markers = planeMesh.geometry.vertices)

\* C10 witness: the triangle of a cubic index set with a negative index.
C10_Witness ==
    /\ lastOp = "visualize"
    /\ visRet = "true"
    /\ ret.params.system = "cubic"
    /\ NoZeroComponent(ret.params)
    /\ ret.params.k.v < 0
    /\ planeMesh.geometry.type = "BufferGeometry"

\* The vector that the calculator normalizes for a parameter object.
NormalVector(params) ==
    IF params.system = "cubic"
    THEN CubicNormalVector(params.h, params.k, params.l)
    ELSE HexagonalNormalVector(params.h, params.k, params.l)

\* C11: for every index set that passes validation, the vector built from
\* the indices is not zero (its squared length is not below the 1e-10
\* threshold either), so the default-normal branch is not taken: the
\* returned normal is that vector normalized, a nonzero direction of unit
\* length.
C11_NormalNeverDegenerate ==
    (Called /\ ret.status = "ok")
    => (/\ LengthSq(NormalVector(ret.params)) # Zero
        /\ ~LengthSqBelowEps(NormalVector(ret.params))
        /\ ret.result.normal = Normalize(NormalVector(ret.params))
        /\ ret.result.normal # Origin)

\* C11 witness: the basal set (0,0,0,-1), where h = k = 0, has its normal
\* along the negative c direction.
C11_Witness ==
    /\ Called
    /\ ret.status = "ok"
    /\ ret.params.system = "hexagonal"
    /\ IsZeroNumber(ret.params.h) /\ IsZeroNumber(ret.params.k)
    /\ ret.params.l = IntNum(-1)
    /\ ret.result.normal = Vec(Zero, Zero, Sc(-1, 1, 0))

\* The dot product of two vectors whose coordinate products are rational.
Dot(a, b) == SAdd(SAdd(SMul(a.x, b.x), SMul(a.y, b.y)), SMul(a.z, b.z))

\* C12: the normal of a result is perpendicular to the plane through the
\* intersection points of the same result: it has the same dot product with
\* any two of the points, and a zero dot product with the direction of
\* every axis that has no point.
C12_NormalPerpendicular ==
    (Called /\ ret.status = "ok")
    => (/\ \A a, b \in DOMAIN ret.result.intersections :
              (ret.result.intersections[a] # Null /\ ret.result.intersections[b] # Null)
              => Dot(ret.result.normal, ret.result.intersections[a])
                     = Dot(ret.result.normal, ret.result.intersections[b])
        /\ \A a \in DOMAIN ret.result.intersections :
              ret.result.intersections[a] = Null
              => Dot(ret.result.normal, AxisDirection(a)) = Zero)

\* A vector with its 2nd and 3rd coordinates exchanged.
Swap23(v) == Vec(v.x, v.z, v.y)

\* The finite points of a hexagonal result with their 2nd and 3rd
\* coordinates exchanged, in the order c, a1, a2, a3.
SwappedPoints(result) ==
    LET S(a) == IF result.intersections[a] = Null THEN <<>>
                ELSE <<Swap23(result.intersections[a])>>
    IN  S("c") \o S("a1") \o S("a2") \o S("a3")

\* What visualize hands to createPlane and createIntersectionPoints.
Displayed(params, rawResult) ==
    IF params.system = "hexagonal" THEN TransformHexagonal(rawResult) ELSE rawResult

\* C13: visualize transforms hexagonal results only.  In the transformed
\* result every finite intersection point and the normal have their 2nd and
\* 3rd coordinates exchanged, an axis without a point stays without one, the
\* center is the mean of the exchanged points, and size and parameters are
\* those of the raw result; the plane and the markers are built from it.
\* A cubic result is drawn as calculated.
C13_TransformHexagonalOnly ==
    (lastOp = "visualize" /\ ret.status = "ok")
    => (/\ planeMesh = createPlane(Displayed(ret.params, ret.result))
        /\ markers = createIntersectionPoints(Displayed(ret.params, ret.result))
        /\ ret.params.system = "cubic"
              => (planeMesh = createPlane(ret.result)
                    /\ markers = createIntersectionPoints(ret.result))
        /\ ret.params.system = "hexagonal"
              => (/\ \A a \in DOMAIN ret.result.intersections :
                        TransformHexagonal(ret.result).intersections[a]
                            = IF ret.result.intersections[a] = Null THEN Null
                              ELSE Swap23(ret.result.intersections[a])
                  /\ TransformHexagonal(ret.result).normal = Swap23(ret.result.normal)
                  /\ TransformHexagonal(ret.result).center
                         = VDivScalar(SumVec(SwappedPoints(ret.result)),
                                      Len(SwappedPoints(ret.result)))
                  /\ TransformHexagonal(ret.result).size = ret.result.size
                  /\ TransformHexagonal(ret.result).parameters = ret.result.parameters
                  /\ markers = SwappedPoints(ret.result)))

\* C13 witness: a hexagonal set with an a2 point off the a1 axis has been
\* drawn: the marker of a2 lies in the display XZ plane.
C13_Witness ==
    /\ lastOp = "visualize"
    /\ ret.status = "ok"
    /\ ret.params.system = "hexagonal"
    /\ ret.result.intersections.a2 # Null
    /\ ret.result.intersections.c # Null
    /\ \E n \in DOMAIN markers :
           markers[n].y = Zero /\ markers[n].z = ret.result.intersections.a2.y
               /\ markers[n].z # Zero

\* The rectangle over two display-frame points p1, p2 that reaches from
\* -top to +top on the display c-axis (Y).
Rectangle(p1, p2, top) ==
    <<Vec(p1.x, top, p1.z), Vec(p1.x, SNeg(top), p1.z),
      Vec(p2.x, top, p2.z), Vec(p2.x, SNeg(top), p2.z)>>

\* C14: for a valid hexagonal index set with l = 0, createPlane builds a
\* rectangle over two finite a-intercept points (a1 and a3 when h and i are
\* not 0) whose vertices are those points moved to the top and to the bottom
\* of the reference prism that AxisSystem draws.
C14_PrismRectangle ==
    (lastOp = "visualize" /\ ret.status = "ok" /\ ret.params.system = "hexagonal"
        /\ IsZeroNumber(ret.params.l))
    => (/\ planeMesh # Null
        /\ planeMesh.geometry.type = "BufferGeometry"
        /\ \E m, n \in DOMAIN markers :
              /\ m # n
              /\ (~IsZeroNumber(ret.params.h) /\ ~IsZeroNumber(ret.params.i))
                    => (markers[m] = Swap23(ret.result.intersections.a1)
                          /\ markers[n] = Swap23(ret.result.intersections.a3))
              /\ planeMesh.geometry.vertices
                     = Rectangle(markers[m], markers[n], halfPrismBodyHeight))

\* The square of the distance between two points of a shape outline.
OutlineDistSq(p, q) ==
    SAdd(SMul(SSub(p[1], q[1]), SSub(p[1], q[1])),
         SMul(SSub(p[2], q[2]), SSub(p[2], q[2])))

\* A regular hexagon of radius r around the origin of the shape plane: six
\* corners at distance r from the origin, each at distance r from the next.
RegularHexagon(outline, r) ==
    /\ DOMAIN outline = 1..6
    /\ \A n \in 1..6 :
          /\ OutlineDistSq(outline[n], <<Zero, Zero>>) = SMul(r, r)
          /\ OutlineDistSq(outline[n], outline[(n % 6) + 1]) = SMul(r, r)

\* C15: for a valid hexagonal index set with h = k = i = 0 and l # 0,
\* createPlane builds a regular hexagon of the prism radius, facing along
\* the display c-axis (Y), so lying in a plane perpendicular to it, placed
\* on that axis at height 1/l; it stays there.
C15_BasalHexagon ==
    (lastOp = "visualize" /\ ret.status = "ok" /\ ret.params.system = "hexagonal"
        /\ IsZeroNumber(ret.params.h) /\ IsZeroNumber(ret.params.k)
        /\ IsZeroNumber(ret.params.i))
    => (/\ planeMesh # Null
        /\ planeMesh.geometry.type = "ShapeGeometry"
        /\ RegularHexagon(planeMesh.geometry.outline, hexRadius)
        /\ hexRadius = SMulQ(HexRadiusFactor, AXIS_LENGTH, 1)
        /\ planeMesh.facing = Vec(Zero, Sc(Sign(NumberValue(ret.params.l)), 1, 0), Zero)
        /\ planeMesh.position = Vec(Zero, Sc(1, ret.params.l.v, 0), Zero))

\* C15 witness: the basal set (0,0,0,-2) is drawn at height -1/2.
C15_Witness ==
    /\ lastOp = "visualize"
    /\ ret.status = "ok"
    /\ ret.params.system = "hexagonal"
    /\ ret.params.l = IntNum(-2)
    /\ planeMesh # Null
    /\ planeMesh.geometry.type = "ShapeGeometry"
    /\ planeMesh.position = Vec(Zero, Sc(-1, 2, 0), Zero)

\* C16: every visualize call disposes what the previous visualization
\* created before it creates the replacements, so the undisposed geometry
\* and material objects are never more than those of one visualization (one
\* plane and one set of markers), however many calls were made.
C16_ResourcesBounded ==
    undisposed <= PlaneResources + MarkerResources

\* What a visualizer that never ran before displays for a parameter object:
\* the plane and the markers built from a fresh calculation.
FreshDisplay(params) ==
    LET Show(visualResult) ==
            [axisSystem |-> setSystem("cubic", params.system),
             planeMesh |-> createPlane(visualResult),
             markers |-> createIntersectionPoints(visualResult)]
    IN  Show(Displayed(params, CalculateFresh(params).result))

\* C17: after a successful visualize(p) the axis system, the plane mesh
\* (shape, vertices, position, orientation) and the markers are those that
\* a first visualize(p) on a new visualizer displays, whatever was
\* visualized or cleared before and whether the result came from the cache.
C17_VisualizeHistoryIndependent ==
    (lastOp = "visualize" /\ visRet = "true")
    => (/\ ret.status = "ok"
        /\ axisSystem = FreshDisplay(ret.params).axisSystem
        /\ axisSystem = ret.params.system
        /\ planeMesh = FreshDisplay(ret.params).planeMesh
        /\ markers = FreshDisplay(ret.params).markers)

\* C17 witness: a hexagonal set drawn from the cache, as the fourth
\* successful visualize, after two other index sets were calculated.
C17_Witness ==
    /\ lastOp = "visualize"
    /\ visRet = "true"
    /\ ret.hit
    /\ ret.params.system = "hexagonal"
    /\ computeCount >= 3
    /\ undisposed = PlaneResources + 4 * MarkerResources

\* The axes of a result that have a finite intersection point.
FiniteAxes(result) ==
    {a \in DOMAIN result.intersections : result.intersections[a] # Null}

\* The sum of the intersection points of a set of axes.
RECURSIVE PointSum(_, _)
PointSum(result, axes) ==
    IF axes = {} THEN Origin
    ELSE LET a == CHOOSE b \in axes : TRUE
         IN  VAdd(result.intersections[a], PointSum(result, axes \ {a}))

\* The arithmetic mean of the finite intersection points of a result.
MeanPoint(result) ==
    VDivScalar(PointSum(result, FiniteAxes(result)), Cardinality(FiniteAxes(result)))

\* C18: the center of a result is the arithmetic mean of exactly its finite
\* intersection points, replaced by the origin when that mean is within the
\* 1e-10 snap threshold of the origin; a valid index set always has a
\* finite point, so the center is the origin in no other case.
C18_CenterIsMean ==
    (Called /\ ret.status = "ok")
    => (/\ FiniteAxes(ret.result) # {}
        /\ ret.result.center
               = IF LengthSqBelowEps(MeanPoint(ret.result)) THEN Origin
                 ELSE MeanPoint(ret.result)
        /\ ret.result.center = Origin
               => LengthSqBelowEps(MeanPoint(ret.result)))

\* C18 witness: a hexagonal result with exactly two finite points (no a2
\* and no c point) whose center lies off the a1 axis.
C18_Witness ==
    /\ Called
    /\ ret.status = "ok"
    /\ ret.params.system = "hexagonal"
    /\ FiniteAxes(ret.result) = {"a1", "a3"}
    /\ ret.result.center = MeanPoint(ret.result)
    /\ ret.result.center.y # Zero

\* a <= b
SLessEq(a, b) == ~SLess(b, a)

\* The origin and the finite intersection points of a result.
BoxPoints(result) ==
    {Origin} \cup {result.intersections[a] : a \in FiniteAxes(result)}

\* The extent along coordinate c of the axis-aligned bounding box of the
\* origin and the finite points: the largest difference of two of them.
BoxExtent(result, c) ==
    LET diffs == {SSub(p[c], q[c]) : p, q \in BoxPoints(result)}
    IN  CHOOSE d \in diffs : \A e \in diffs : SLessEq(e, d)

\* The largest dimension of that bounding box.
LargestDimension(result) ==
    LET dims == {BoxExtent(result, "x"), BoxExtent(result, "y"), BoxExtent(result, "z")}
    IN  CHOOSE d \in dims : \A e \in dims : SLessEq(e, d)

\* C19 as stated: the size of every result lies between PLANE.DEFAULT_SIZE
\* and PLANE.MAX_SIZE.
C19_SizeWithinConfigured ==
    (Called /\ ret.status = "ok")
    => (/\ SLessEq(Sc(DEFAULT_SIZE, 1, 0), ret.result.size)
        /\ SLessEq(ret.result.size, Sc(MAX_SIZE, 1, 0)))

\* C19, amended: with two or more finite points the size is 1.5 times the
\* largest dimension of the bounding box of the origin and the finite
\* points, where a dimension below 0.5 counts as 0.5, and at most
\* PLANE.MAX_SIZE; so every size lies between 0.75 and PLANE.MAX_SIZE, and
\* PLANE.DEFAULT_SIZE is no lower limit.
C19_SizeClamped ==
    (Called /\ ret.status = "ok")
    => (/\ Cardinality(FiniteAxes(ret.result)) >= 2
              => ret.result.size
                    = SMin(SMulQ(SMax(LargestDimension(ret.result), Sc(1, 2, 0)), 3, 2),
                           Sc(MAX_SIZE, 1, 0))
        /\ SLessEq(Sc(3, 4, 0), ret.result.size)
        /\ SLessEq(ret.result.size, Sc(MAX_SIZE, 1, 0)))

\* C19 witness: a result with two finite points close to the origin has
\* the smallest size, 0.75.
C19_Witness ==
    /\ Called
    /\ ret.status = "ok"
    /\ Cardinality(FiniteAxes(ret.result)) >= 2
    /\ SLess(LargestDimension(ret.result), Sc(1, 2, 0))
    /\ ret.result.size = Sc(3, 4, 0)

\* The number of index components of a parameter object that are not 0.
NonzeroCount(params) ==
    Cardinality({n \in DOMAIN Components(params) : ~IsZeroNumber(Components(params)[n])})

\* C20: a valid index set has fewer than 2 finite intersection points
\* exactly when it has exactly one nonzero index, and then the size is the
\* fixed value 1.5 * DEFAULT_SIZE, whatever the index; with 2 or more
\* finite points the size comes from the bounding box and is a different
\* value.
C20_SizeFallback ==
    (Called /\ ret.status = "ok")
    => (/\ (Cardinality(FiniteAxes(ret.result)) < 2) <=> (NonzeroCount(ret.params) = 1)
        /\ Cardinality(FiniteAxes(ret.result)) < 2
              => ret.result.size = SMulQ(Sc(DEFAULT_SIZE, 1, 0), 3, 2)
        /\ Cardinality(FiniteAxes(ret.result)) >= 2
              => (/\ ret.result.size # SMulQ(Sc(DEFAULT_SIZE, 1, 0), 3, 2)
                  /\ SLessEq(SMulQ(LargestDimension(ret.result), 3, 2), ret.result.size)))

\* C20 witness: the basal set (0,0,0,2), one point at distance 1/2, has the
\* fallback size 4.5.
C20_Witness ==
    /\ Called
    /\ ret.status = "ok"
    /\ ret.params.system = "hexagonal"
    /\ ret.params.l = IntNum(2)
    /\ FiniteAxes(ret.result) = {"c"}
    /\ ret.result.size = Sc(9, 2, 0)

\* C21: in the cubic system, a result with exactly 1 finite point (the
\* other two indices are 0) is drawn as a square of side AXIS.LENGTH placed
\* at that point and facing along the normal; a result with exactly 2
\* finite points is drawn as a square of side size placed at center and
\* facing along the normal.
C21_CubicSquares ==
    (lastOp = "visualize" /\ ret.status = "ok" /\ ret.params.system = "cubic")
    => (/\ Cardinality(FiniteAxes(ret.result)) = 1
              => (/\ NonzeroCount(ret.params) = 1
                  /\ planeMesh.geometry
                         = PlaneGeometry(Sc(AXIS_LENGTH, 1, 0), Sc(AXIS_LENGTH, 1, 0))
                  /\ \E a \in FiniteAxes(ret.result) :
                         planeMesh.position = ret.result.intersections[a]
                  /\ planeMesh.facing = ret.result.normal)
        /\ Cardinality(FiniteAxes(ret.result)) = 2
              => (/\ planeMesh.geometry
                         = PlaneGeometry(ret.result.size, ret.result.size)
                  /\ planeMesh.position = ret.result.center
                  /\ planeMesh.facing = ret.result.normal))

\* C21 witness: the unit-cell face of a cubic set whose only nonzero index
\* is negative has been drawn.
C21_Witness ==
    /\ lastOp = "visualize"
    /\ ret.status = "ok"
    /\ ret.params.system = "cubic"
    /\ ret.params.k = IntNum(-2)
    /\ FiniteAxes(ret.result) = {"x"}
    /\ planeMesh.geometry = PlaneGeometry(Sc(AXIS_LENGTH, 1, 0), Sc(AXIS_LENGTH, 1, 0))
    /\ planeMesh.position = Vec(Sc(-1, 2, 0), Zero, Zero)

\* The finite a-axes of a result in a1, a2, a3 order.
FiniteAAxes(result) ==
    SelectSeq(<<"a1", "a2", "a3">>, LAMBDA a : result.intersections[a] # Null)

\* The pair of a-axes preferred for the indices: (a1, a3) when h and i are
\* not 0, else (a1, a2) when h and k are not 0, else (a2, a3) when k and i
\* are not 0, else the first two finite ones.
PreferredAxes(params, result) ==
    IF ~IsZeroNumber(params.h) /\ ~IsZeroNumber(params.i) THEN <<"a1", "a3">>
    ELSE IF ~IsZeroNumber(params.h) /\ ~IsZeroNumber(params.k) THEN <<"a1", "a2">>
    ELSE IF ~IsZeroNumber(params.k) /\ ~IsZeroNumber(params.i) THEN <<"a2", "a3">>
    ELSE SubSeq(FiniteAAxes(result), 1, 2)

\* The display-frame point of an axis of a raw hexagonal result.
DisplayPoint(result, a) == Swap23(result.intersections[a])

NonzeroAAxes(params) ==
    SelectSeq(<<"a1", "a2", "a3">>, LAMBDA a : ~IsZeroNumber(AxisIndex(params, a)))

\* A valid hexagonal index set of the pyramidal/general case has been drawn.
PyramidalDrawn ==
    /\ lastOp = "visualize"
    /\ ret.status = "ok"
    /\ ret.params.system = "hexagonal"
    /\ ~IsZeroNumber(ret.params.l)
    /\ Len(NonzeroAAxes(ret.params)) >= 2

CrystalAxisIndex(params, name) ==
    CASE name = "a" -> params.h
      [] name = "b" -> params.k
      [] name = "c" -> params.l

\* The key under which the calculator stores the point of a crystal axis.
CrystalAxisKey(name) ==
    CASE name = "a" -> "z"
      [] name = "b" -> "x"
      [] name = "c" -> "y"

\* A point lies on the drawn line of an axis.
OnDrawnAxis(p, axis) ==
    /\ p = VScale(axis.dir, Dot(p, axis.dir))
    /\ SLessEq(Sc(-AXIS_LENGTH, 1, 0), Dot(p, axis.dir))
    /\ SLessEq(Dot(p, axis.dir), Sc(AXIS_LENGTH, 1, 0))

\* The markers of the scene that lie on the drawn line of an axis.
MarkersOn(axis) == {n \in DOMAIN markers : OnDrawnAxis(markers[n], axis)}

\* The vector with coefficient h along the drawn a axis, k along the drawn
\* b axis and l along the drawn c axis.
IndexVectorOnAxes(params, axes) ==
    SumVec([n \in DOMAIN axes |->
               VScale(axes[n].dir, NumberValue(CrystalAxisIndex(params, axes[n].name)))])

\* C24: in the cubic system the calculator and AxisSystem pair the indices
\* with the axes alike: the point of h is stored under z and drawn on the
\* a axis, that of k under x on the b axis, that of l under y on the c axis,
\* at 1/index along the axis; an axis with index 0 carries no marker; and
\* the normal is the direction of h*a + k*b + l*c in the drawn axes.
C24_CubicPairing ==
    (lastOp = "visualize" /\ ret.status = "ok" /\ ret.params.system = "cubic")
    => (/\ axisSystem = "cubic"
        /\ \A n \in DOMAIN createCubicAxes :
              LET axis == createCubicAxes[n]
                  index == CrystalAxisIndex(ret.params, axis.name)
                  point == ret.result.intersections[CrystalAxisKey(axis.name)]
              IN  IF IsZeroNumber(index)
                  THEN point = Null /\ MarkersOn(axis) = {}
                  ELSE /\ point = VScale(axis.dir, Sc(1, index.v, 0))
                       /\ OnDrawnAxis(point, axis)
                       /\ \E m \in DOMAIN markers :
                             markers[m] = point /\ MarkersOn(axis) = {m}
        /\ ret.result.normal = Normalize(IndexVectorOnAxes(ret.params, createCubicAxes)))

\* C24 witness: (h,k,l) = (2,-1,0) is drawn with a marker at 1/2 on the a
\* axis (visual z), a marker at -1 on the b axis (visual x), none on c.
C24_Witness ==
    /\ lastOp = "visualize"
    /\ ret.status = "ok"
    /\ ret.params.system = "cubic"
    /\ ret.params.h = IntNum(2) /\ ret.params.k = IntNum(-1) /\ ret.params.l = IntNum(0)
    /\ axisSystem = "cubic"
    /\ markers = <<Vec(Sc(-1, 1, 0), Zero, Zero), Vec(Zero, Zero, Sc(1, 2, 0))>>

\* The conditions of the three special hexagonal constructions of
\* createPlane, as tested on a result: basal, prism, pyramidal/general.
HexagonalCases(result) ==
    LET params == result.parameters
        enoughA == Cardinality(FiniteAxes(result) \ {"c"}) >= 2
        cFinite == result.intersections.c # Null
    IN  <<IsZeroNumber(params.h) /\ IsZeroNumber(params.k) /\ IsZeroNumber(params.i)
              /\ ~IsZeroNumber(params.l) /\ cFinite,
          IsZeroNumber(params.l) /\ enoughA,
          ~IsZeroNumber(params.l) /\ cFinite /\ enoughA>>

\* C25: for every validated hexagonal index set exactly one of the three
\* special constructions applies: the hexagon when h = k = i = 0, the
\* 4-vertex rectangle when l = 0, the 3-vertex triangle otherwise; the
\* generic square is never drawn.
C25_HexNeverFallback ==
    (lastOp = "visualize" /\ ret.status = "ok" /\ ret.params.system = "hexagonal")
    => (/\ Cardinality({n \in 1..3 : HexagonalCases(ret.result)[n]}) = 1
        /\ planeMesh # Null
        /\ planeMesh.geometry.type # "PlaneGeometry"
        /\ planeMesh.geometry.type
              = (IF Len(NonzeroAAxes(ret.params)) = 0 THEN "ShapeGeometry" ELSE "BufferGeometry")
        /\ Len(NonzeroAAxes(ret.params)) # 0
              => Len(planeMesh.geometry.vertices)
                    = (IF IsZeroNumber(ret.params.l) THEN 4 ELSE 3))

\* C25 witness: (1,-1,0,2), with no point on a3, is drawn as a triangle.
C25_Witness ==
    /\ lastOp = "visualize"
    /\ ret.status = "ok"
    /\ ret.params.system = "hexagonal"
    /\ ret.params.h = IntNum(1) /\ ret.params.k = IntNum(-1) /\ ret.params.l = IntNum(2)
    /\ ret.result.intersections.a3 = Null
    /\ planeMesh.geometry.type = "BufferGeometry"
    /\ Len(planeMesh.geometry.vertices) = 3

VisualizeStep == lastOp' = "visualize"

\* C27: in every sequence of visualize and reset, a visualize that returns
\* true leaves the axis system equal to the system of its parameters, which
\* is cubic or hexagonal, and has built the plane from the transformed
\* result exactly when that system is hexagonal; a visualize whose system
\* is the current one or no supported one leaves the axis system as it was.
C27_AxisSystemFollowsParams ==
    [][VisualizeStep
         => (/\ visRet' = "true"
                  => (/\ ret'.params.system \in {"cubic", "hexagonal"}
                      /\ axisSystem' = ret'.params.system
                      /\ planeMesh' = createPlane(IF ret'.params.system = "hexagonal"
                                                  THEN TransformHexagonal(ret'.result)
                                                  ELSE ret'.result))
             /\ (ret'.params.system = axisSystem
                    \/ ret'.params.system \notin {"cubic", "hexagonal"})
                  => axisSystem' = axisSystem)]_vars

\* C27 witness: a hexagonal set is visualized again, from the cache, on
\* hexagonal axes and from the transformed result.
C27_Witness ==
    /\ lastOp = "visualize"
    /\ visRet = "true"
    /\ ret.params.system = "hexagonal"
    /\ ret.hit
    /\ axisSystem = "hexagonal"
    /\ planeMesh = createPlane(TransformHexagonal(ret.result))
    /\ planeMesh # createPlane(ret.result)

\* An index set that the calculator computes: integers, not all 0, of a
\* supported system, with h + k + i = 0 when hexagonal.
ValidIndexSet(params) ==
    /\ params.system \in {"cubic", "hexagonal"}
    /\ AllIntegers(params)
    /\ ~AllZero(params)
    /\ params.system = "hexagonal" => params.h.v + params.k.v + params.i.v = 0

\* C28: visualize returns true or false and nothing else: true for a valid
\* index set, with a plane mesh in the scene, and false for every index set
\* that validation rejects and every unsupported system; after false the
\* scene holds no plane mesh and no markers, whatever was drawn before.
C28_VisualizeReturnsBoolean ==
    lastOp = "visualize"
    => (/\ visRet \in {"true", "false"}
        /\ visRet = "true" <=> ValidIndexSet(ret.params)
        /\ visRet = "true" => (ret.status = "ok" /\ planeMesh # Null)
        /\ visRet = "false"
              => (ret.status = "error" /\ planeMesh = Null /\ markers = <<>>))

\* C28 witness: after index sets have been drawn, a visualize of an
\* unsupported system returns false and leaves the scene empty.
C28_Witness ==
    /\ lastOp = "visualize"
    /\ visRet = "false"
    /\ ret.params.system = "tetragonal"
    /\ computeCount >= 2
    /\ undisposed > PlaneResources
    /\ planeMesh = Null
    /\ markers = <<>>

\* C29: after every sequence of input events, system changes, generates
\* and resets: with cubic selected the i field is empty; with hexagonal
\* selected and integers read from h and k the i field holds -(h + k); so
\* every visualize that handleGenerate calls in hexagonal mode gets integer
\* h, k, i read from the fields with h + k + i = 0.
C29_DerivedIndexInSync ==
    /\ crystalSystemSelect = "cubic" => iInput = Empty
    /\ (crystalSystemSelect = "hexagonal"
          /\ NumberIsInteger(parseInt(hInput)) /\ NumberIsInteger(parseInt(kInput)))
          => iInput = IntNum(-(parseInt(hInput).v + parseInt(kInput).v))
    /\ (lastOp = "visualize" /\ ret.params.system = "hexagonal")
          => (/\ crystalSystemSelect = "hexagonal"
              /\ ret.params.h = parseInt(hInput)
              /\ ret.params.k = parseInt(kInput)
              /\ ret.params.i = iInput
              /\ AllIntegers(ret.params)
              /\ ret.params.h.v + ret.params.k.v + ret.params.i.v = 0)

\* C29 witness: with h = "-1.5" (read as -1) and k = "0" in hexagonal mode
\* the i field holds 1 and Generate has visualized (-1, 0, 1, l).
C29_Witness ==
    /\ crystalSystemSelect = "hexagonal"
    /\ hInput = HalfNum(-3)
    /\ kInput = IntNum(0)
    /\ iInput = IntNum(1)
    /\ lastOp = "visualize"
    /\ visRet = "true"
    /\ ret.params.i = IntNum(1)

\* dispose() has returned.
Disposed == renderer = "null"

\* Nothing the visualizer registered is active: no animation-frame callback
\* is scheduled, no observer observes, no resize listener is registered.
NothingActive ==
    /\ frames = {}
    /\ resizeObserver # "observing"
    /\ windowListeners = {}

\* C30: in every state after dispose() has returned, nothing the visualizer
\* registered is active: no animation-frame callback is scheduled or
\* scheduled again, and the resize observer is disconnected or, without
\* ResizeObserver, the window resize listener is removed.
C30_NothingActiveAfterDispose == Disposed => NothingActive

====
